---- MODULE Spec2Model ----
(***************************************************************************)
(* State-machine model of the viz-components core: the ThemeController,    *)
(* the LazyInitController, the chart host base with its specialised stock  *)
(* chart hosts, the VizStore, the event-flag layout function, the price    *)
(* lookup of the stock evolution chart, the PropertyWatchController and    *)
(* the real-time tick of the stock chart.                                  *)
(* Every component has a specification of its own (SpecTheme, SpecLazy,    *)
(* SpecHost and, with fairness, SpecReattach, SpecZoom, SpecFlag and       *)
(* SpecDenseFlag, SpecPrice, SpecWatch, SpecTick, and for the store        *)
(* SpecStore, SpecNamespaces, SpecClosure, SpecPersist and SpecMany); the  *)
(* actions of one component leave the variables of the others unchanged.   *)
(***************************************************************************)
EXTENDS Integers, Sequences, FiniteSets, TLC

(***************************************************************************)
(* Bounds of the model.                                                    *)
(***************************************************************************)
\* Unreferenced MutationObservers that are still observing.
MaxLeaked == 1
\* Length of a burst of class mutations that is counted (longer bursts saturate).
MaxBurst == 3
\* Intersection entries queued for one delivery.
MaxQueue == 2
\* Callback and updateChart() invocations that are counted (the counters saturate).
MaxCount == 2
\* Subscriptions held by all stores together.
MaxSubs == 2
\* Nested notifications: a set() made by a subscriber during a delivery.
MaxDepth == 2
\* Events given to one flag layout.
MaxEvents == 3
\* Samples of the price series given to findPriceAtDate.
MaxSamples == 3
\* Unsubscribe closures returned by one store.
MaxClosures == 3

VARIABLES
    \* ---- ThemeController and the two observed DOM nodes
    tConnected,     \* the host is attached
    tMode,          \* _mode
    tCurrent,       \* _currentTheme
    tObserver,      \* this.observer # null
    tLeaked,        \* observers still observing that this.observer no longer names
    tTimers,        \* live debounce timers
    rootClasses,    \* document.documentElement.classList
    bodyClasses,    \* document.body.classList
    tLastCall,      \* history: the last onThemeChange invocation
    tBurst,         \* history: the current burst of mutations
    tSetMode,       \* history: the last setMode call that changed the mode
    tDarkExpiry,    \* history: a timer pending at setMode('dark') has expired
    tDetach,        \* history: what has happened since the last hostDisconnected()
    \* ---- LazyInitController, its host element and the platform
    lIO,            \* 'IntersectionObserver' in window
    lConnected,     \* the host is attached
    lObserver,      \* this.observer # null
    lIsVisible,     \* _isVisible
    lHasBeenVisible,\* _hasBeenVisible
    lQueue,         \* entries the observer has queued for its next callback
    elIntersecting, \* whether the element intersects the root now
    lMicro,         \* a queued microtask that calls host.requestUpdate()
    lLast,          \* history: the last controller operation
    lRun,           \* history: the current run of consecutive forceVisible() calls
    lFires,         \* history: onVisible invocations since the last connect or reset
    lEpoch,         \* history: "new", "connected" (since hostConnected) or "reset"
    \* ---- VizHighchartsComponent (a VizStockEvolution element)
    host,           \* the element's fields, see InitHost
    \* ---- a stock chart element and the chart engine's x axis
    zKind,          \* "evolution" (VizStockEvolution) or "stockchart" (VizStockChart)
    zChart,         \* this.chart # null
    zExt,           \* what chart.xAxis[0].getExtremes() reports
    zLast,          \* history: the last operation and the extremes before it
    \* ---- VizStore: one instance per namespace
    sState,         \* instance -> key -> stored value, or "absent"
    sSubs,          \* instance -> key -> the key's subscriber Set, in insertion order
    sWild,          \* instance -> the wildcardSubscribers Set, in insertion order
    sStack,         \* the notifySubscribers() calls in progress, innermost last
    sLast,          \* history: the operation called from outside a callback
    sDone,          \* history: the notification that finished last
    sInvoked,       \* history: the last subscriber invocation
    sUnsubbed,      \* history: a subscription whose unsubscribe closure was called
    sPersist,       \* options.persist
    sStorage,       \* localStorage: the item of each store's storage key
    sFails,         \* environment: access to localStorage throws
    \* ---- calculateFlagStemHeights(events, priceRange)
    fEvents,        \* the events argument
    fRange,         \* the priceRange argument
    fCalled,        \* the function has been applied
    fLayout         \* eventsWithPrice after the call, in date order

themeVars == <<tConnected, tMode, tCurrent, tObserver, tLeaked, tTimers,
               rootClasses, bodyClasses, tLastCall, tBurst, tSetMode, tDarkExpiry, tDetach>>

lazyVars == <<lIO, lConnected, lObserver, lIsVisible, lHasBeenVisible, lQueue,
              elIntersecting, lMicro, lLast, lRun, lFires, lEpoch>>

zoomVars == <<zKind, zChart, zExt, zLast>>

persistVars == <<sPersist, sStorage, sFails>>

storeVars == <<sState, sSubs, sWild, sStack, sLast, sDone, sInvoked, sUnsubbed, persistVars>>

flagVars == <<fEvents, fRange, fCalled, fLayout>>

\* VizStockEvolution.findPriceAtDate: the element's prices, the timestamp asked
\* for, and the value returned.
VARIABLES pPrices, pTimestamp, pCalled, pResult
priceVars == <<pPrices, pTimestamp, pCalled, pResult>>

\* PropertyWatchController and its host's update cycle.
VARIABLES
    wDebounce,      \* options.debounce in ms
    wEpoch,         \* "new" (never attached), "attached" or "detached"
    wChanged,       \* changedProperties of the host's pending update cycle
    wPending,       \* pendingChanges, each with the epoch it was collected in
    wTimer,         \* debounceTimer is pending
    wInitialized,   \* _initialized
    wOp,            \* history: the last operation
    wLast,          \* history: the last invocation of options.callback
    wHist           \* history: the watched changes owed to the callback, and the
                    \* last checkProperties call
watchVars == <<wDebounce, wEpoch, wChanged, wPending, wTimer, wInitialized, wOp, wLast, wHist>>

\* VizStockChart and its real-time timer.
VARIABLES
    rEpoch,         \* "new" (never attached), "attached" or "detached"
    rChanged,       \* changedProperties of the pending update cycle
    rRealtime,      \* config.realtime
    rTimer,         \* realtimeTimer # null
    rChart,         \* chart # null
    rLen,           \* data.length
    rTicked,        \* history: a tick has appended a point since data was last written
    rDetachedTick   \* history: a tick has appended a point while detached
tickVars == <<rEpoch, rChanged, rRealtime, rTimer, rChart, rLen, rTicked, rDetachedTick>>

\* The unsubscribe closures that subscribe() and subscribeAll() have returned.
VARIABLES
    cClosures,      \* the closures in the order they were returned
    cLast           \* history: the last call of a closure
closureVars == <<cClosures, cLast>>

\* VizStore.setMany(updates) in progress.
VARIABLES
    mUpdates,       \* Object.entries(updates)
    mIndex,         \* entries that the loop has passed to set()
    mBefore         \* history: the store's state when setMany() was called
manyVars == <<mUpdates, mIndex, mBefore>>

\* The components that follow the flag layout in this module.
restVars == <<priceVars, watchVars, tickVars, closureVars, manyVars>>
exceptPrice == <<themeVars, lazyVars, host, zoomVars, storeVars, flagVars, watchVars, tickVars,
                 closureVars, manyVars>>
exceptWatch == <<themeVars, lazyVars, host, zoomVars, storeVars, flagVars, priceVars, tickVars,
                 closureVars, manyVars>>
exceptTick == <<themeVars, lazyVars, host, zoomVars, storeVars, flagVars, priceVars, watchVars,
                closureVars, manyVars>>
exceptClosure ==
    <<themeVars, lazyVars, host, zoomVars, flagVars, priceVars, watchVars, tickVars, manyVars>>
exceptMany ==
    <<themeVars, lazyVars, host, zoomVars, flagVars, priceVars, watchVars, tickVars, closureVars>>

vars == <<themeVars, lazyVars, host, zoomVars, storeVars, flagVars, restVars>>

(***************************************************************************)
(* ThemeController                                                         *)
(***************************************************************************)
ThemeModes == {"light", "dark", "auto"}
ClassNames == {"dark", "other"}
\* options.darkModeSelectors ?? ['dark']
darkModeSelectors == {"dark"}
NoCall == [by |-> "none", current |-> "light", mode |-> "auto", isAuto |-> TRUE,
           env |-> "light"]

\* detectFromEnvironment(): a marker class on either node means dark.
detectFromEnvironmentRootOnly(root, body) ==
    IF \E s \in darkModeSelectors : s \in root THEN "dark" ELSE "light"
detectFromEnvironment(root, body) ==
    IF \E s \in darkModeSelectors : s \in root \/ s \in body THEN "dark" ELSE "light"

\* The value detectTheme() assigns to _currentTheme.
detectedThemeIgnoringMode(mode, root, body) == detectFromEnvironment(root, body)
detectedTheme(mode, root, body) ==
    IF mode = "auto" THEN detectFromEnvironment(root, body) ELSE mode

\* detectTheme(), called by `by` with _mode already `mode`: assigns _currentTheme
\* and invokes onThemeChange when it changed.
detectTheme(mode, by) ==
    LET new == detectedTheme(mode, rootClasses, bodyClasses)
    IN  /\ tCurrent' = new
        /\ tLastCall' = IF new # tCurrent
                        THEN [by |-> by, current |-> new, mode |-> mode,
                              isAuto |-> (mode = "auto"),
                              env |-> detectFromEnvironment(rootClasses, bodyClasses)]
                        ELSE tLastCall
        /\ tBurst' = IF by = "timer"
                     THEN [tBurst EXCEPT !.cbs = @ + (IF new # tCurrent THEN 1 ELSE 0),
                                         !.open = (tTimers' > 0)]
                     ELSE tBurst

\* The live timers after debouncedDetect(): the previous one is cleared.
timersAfterDebounceNoClear(timers) == timers + 1
timersAfterDebounce(timers) == 1

\* setupAutoDetection(): a new observer replaces this.observer; an observer that
\* was still named by it keeps observing.
setupAutoDetection ==
    /\ tObserver' = TRUE
    /\ tLeaked' = IF tObserver THEN tLeaked + 1 ELSE tLeaked

\* cleanupAutoDetection()
cleanupAutoDetection ==
    /\ tObserver' = FALSE
    /\ UNCHANGED tLeaked

\* hostConnected()
ThemeHostConnected ==
    /\ ~tConnected
    /\ (tMode = "auto" /\ tObserver) => tLeaked < MaxLeaked
    /\ tConnected' = TRUE
    /\ detectTheme(tMode, "connect")
    /\ IF tMode = "auto" THEN setupAutoDetection ELSE UNCHANGED <<tObserver, tLeaked>>
    /\ tDetach' = "no"
    /\ UNCHANGED <<tMode, tTimers, rootClasses, bodyClasses, tSetMode, tDarkExpiry>>
    /\ UNCHANGED <<lazyVars, host, zoomVars, storeVars, flagVars, restVars>>

\* hostDisconnected() -> cleanup()
ThemeHostDisconnected ==
    /\ tConnected
    /\ tConnected' = FALSE
    /\ tTimers' = 0
    /\ cleanupAutoDetection
    /\ tBurst' = [tBurst EXCEPT !.open = FALSE]
    /\ tSetMode' = IF tSetMode = "auto" THEN "none" ELSE tSetMode
    /\ tDetach' = "just"
    /\ UNCHANGED <<tMode, tCurrent, rootClasses, bodyClasses, tLastCall, tDarkExpiry>>
    /\ UNCHANGED <<lazyVars, host, zoomVars, storeVars, flagVars, restVars>>

\* setMode(mode)
SetMode(mode) ==
    /\ tMode' = mode
    /\ IF mode = "auto" /\ tMode # "auto" THEN setupAutoDetection
       ELSE IF mode # "auto" /\ tMode = "auto" THEN cleanupAutoDetection
       ELSE UNCHANGED <<tObserver, tLeaked>>
    /\ detectTheme(mode, "setMode")
    /\ tSetMode' = IF mode = tMode THEN tSetMode ELSE mode
    /\ tDetach' = "no"
    /\ UNCHANGED <<tConnected, tTimers, rootClasses, bodyClasses, tDarkExpiry>>
    /\ UNCHANGED <<lazyVars, host, zoomVars, storeVars, flagVars, restVars>>

\* A class is toggled on the document root or on the body; every observer that is
\* still observing calls debouncedDetect().
ClassMutation(node, c) ==
    /\ IF node = "root"
       THEN /\ rootClasses' = IF c \in rootClasses THEN rootClasses \ {c}
                              ELSE rootClasses \cup {c}
            /\ UNCHANGED bodyClasses
       ELSE /\ bodyClasses' = IF c \in bodyClasses THEN bodyClasses \ {c}
                              ELSE bodyClasses \cup {c}
            /\ UNCHANGED rootClasses
    /\ IF tObserver \/ tLeaked > 0
       THEN /\ tTimers' = timersAfterDebounce(tTimers)
            /\ tBurst' = IF tTimers > 0 /\ tBurst.open
                         THEN [tBurst EXCEPT !.len = IF @ < MaxBurst THEN @ + 1 ELSE @,
                                             !.envs = @ \cup {detectFromEnvironment(
                                                                rootClasses', bodyClasses')}]
                         ELSE [len |-> 1, cbs |-> 0, open |-> TRUE,
                               envs |-> {detectFromEnvironment(rootClasses', bodyClasses')}]
       ELSE UNCHANGED <<tTimers, tBurst>>
    /\ tDetach' = IF tDetach = "just" THEN "mutated" ELSE tDetach
    /\ UNCHANGED <<tConnected, tMode, tCurrent, tObserver, tLeaked, tLastCall, tSetMode,
                   tDarkExpiry>>
    /\ UNCHANGED <<lazyVars, host, zoomVars, storeVars, flagVars, restVars>>

\* A debounce timer expires, 50 ms after the mutation that started it.
ThemeTimerExpires ==
    /\ tTimers > 0
    /\ tTimers' = tTimers - 1
    /\ detectTheme(tMode, "timer")
    /\ tDarkExpiry' = (tDarkExpiry \/ (tSetMode = "dark" /\ ~tObserver /\ tLeaked = 0))
    /\ tDetach' = IF tDetach = "no" THEN "no"
                  ELSE IF tCurrent' # tCurrent THEN "changed" ELSE "resolved"
    /\ UNCHANGED <<tConnected, tMode, tObserver, tLeaked, rootClasses, bodyClasses,
                   tSetMode>>
    /\ UNCHANGED <<lazyVars, host, zoomVars, storeVars, flagVars, restVars>>

InitTheme ==
    /\ tConnected = FALSE
    /\ tMode \in ThemeModes
    /\ tCurrent = "light"
    /\ tObserver = FALSE
    /\ tLeaked = 0
    /\ tTimers = 0
    /\ rootClasses \in SUBSET ClassNames
    /\ bodyClasses \in SUBSET ClassNames
    /\ tLastCall = NoCall
    /\ tBurst = [len |-> 0, cbs |-> 0, open |-> FALSE, envs |-> {}]
    /\ tSetMode = "none"
    /\ tDarkExpiry = FALSE
    /\ tDetach = "no"

\* A controller built with the default mode on a page without classes.
IdleTheme ==
    /\ InitTheme
    /\ tMode = "auto"
    /\ rootClasses = {}
    /\ bodyClasses = {}

NextTheme ==
    \/ ThemeHostConnected
    \/ ThemeHostDisconnected
    \/ \E m \in ThemeModes : SetMode(m)
    \/ \E node \in {"root", "body"}, c \in ClassNames : ClassMutation(node, c)
    \/ ThemeTimerExpires

(***************************************************************************)
(* Claims about the ThemeController (checked under SpecTheme).             *)
(***************************************************************************)
\* C3: a burst of class mutations, each restarting the 50 ms window, makes no
\* onThemeChange call while the window is open and at most one when it expires,
\* and that call carries the theme resolved from the class state at expiry (the
\* final one of the burst); at most one debounce timer is ever pending.
C3_DebouncedThemeChange ==
    /\ tTimers <= 1
    /\ tBurst.cbs <= 1
    /\ tBurst.open => tBurst.cbs = 0
    /\ tLastCall.by = "timer" =>
          /\ tLastCall.mode = "auto" /\ tLastCall.isAuto
          /\ tLastCall.current = tLastCall.env

\* A burst of at least two mutations that passed through both resolved themes has
\* ended, on an attached Auto controller, with one onThemeChange call.
C3_Witness ==
    /\ tConnected /\ tMode = "auto"
    /\ tBurst.len >= 2 /\ ~tBurst.open /\ tBurst.cbs = 1
    /\ tBurst.envs = {"light", "dark"}
    /\ tLastCall.by = "timer"
    /\ tLastCall.current = detectFromEnvironment(rootClasses, bodyClasses)

\* C4: after setMode('dark') from Auto the current theme stays 'dark' whatever the
\* classes are and no timer expiry invokes onThemeChange outside Auto mode; after
\* a later setMode('auto') observation is active again and, once no debounce
\* timer is pending, the current theme is the one resolved from the classes.
C4_SetModeStopsAutoDetection ==
    /\ tSetMode = "dark" => tCurrent = "dark" /\ ~tObserver
    /\ tLastCall.by = "timer" => tLastCall.mode = "auto"
    /\ tSetMode = "auto" =>
          /\ tObserver
          /\ tTimers = 0 => tCurrent = detectFromEnvironment(rootClasses, bodyClasses)

\* A timer that was pending at setMode('dark') expired while the classes resolved
\* to light; later setMode('auto') was called and a mutation was detected again.
C4_Witness ==
    /\ tDarkExpiry
    /\ tSetMode = "auto"
    /\ tLastCall.by = "timer" /\ tLastCall.current = "light"
    /\ tCurrent = "light" /\ tTimers = 0

\* hostDisconnected() leaves the controller's own fields cleared: no timer and
\* this.observer null, so that a second call finds nothing to do.
CleanupClearsFields == tDetach = "just" => tTimers = 0 /\ ~tObserver

\* C14: after hostDisconnected(), and until setMode or hostConnected is called
\* again, no debounce timer is pending and no observer is observing, whatever
\* was called before; so a class mutation starts no timer and no timer expiry
\* resolves the theme again or calls onThemeChange.
C14_DetachStopsDetection ==
    tDetach # "no" =>
        /\ tTimers = 0
        /\ ~tObserver /\ tLeaked = 0
        /\ tDetach \in {"just", "mutated"}

\* C27: whenever the controller is attached in Auto mode and no debounce timer
\* is pending, the current theme is the one resolved from the marker classes of
\* the document root and the body: dark when one is present on either node,
\* light otherwise.
C27_AutoThemeFollowsClasses ==
    (tConnected /\ tMode = "auto" /\ tTimers = 0) =>
        /\ tCurrent \in {"dark", "light"}
        /\ tCurrent = "dark" <=>
               \E s \in darkModeSelectors : s \in rootClasses \cup bodyClasses

\* hostConnected() found the theme changed from dark to light (the controller
\* was not attached when it became stale), and the controller is attached in
\* Auto mode with no timer pending and no marker class on either node.
C27_Witness ==
    /\ tConnected /\ tMode = "auto" /\ tTimers = 0
    /\ tLastCall.by = "connect" /\ tLastCall.current = "light"
    /\ tCurrent = "light"
    /\ "dark" \notin rootClasses \cup bodyClasses
    /\ "other" \in rootClasses

(***************************************************************************)
(* LazyInitController                                                      *)
(***************************************************************************)
Sat(n) == IF n > MaxCount THEN MaxCount ELSE n

\* History kept by every controller operation `op` that invoked onVisible `n` times.
LazyRecord(op, n) ==
    /\ lLast' = [op |-> op, fired |-> n, hbv |-> lHasBeenVisible]
    /\ lRun' = IF op = "forceVisible"
               THEN [len |-> Sat(lRun.len + 1), fires |-> Sat(lRun.fires + n)]
               ELSE [len |-> 0, fires |-> 0]
    /\ lFires' = IF op \in {"hostConnected", "reset"} THEN n ELSE Sat(lFires + n)
    /\ lEpoch' = IF op = "hostConnected" THEN "connected"
                 ELSE IF op = "reset" THEN "reset" ELSE lEpoch

\* Whether hostConnected() invokes onVisible: only on the fallback path.
connectFires == ~lIO

\* The flags hostConnected() leaves on a platform without IntersectionObserver.
fallbackFlagsNotLatched == [isVisible |-> TRUE, hasBeenVisible |-> lHasBeenVisible]
fallbackFlags == [isVisible |-> TRUE, hasBeenVisible |-> TRUE]

\* hostConnected(): the fallback, or a new observer, which queues a first entry
\* holding the element's present state.
LazyHostConnected ==
    /\ ~lConnected
    /\ lConnected' = TRUE
    /\ IF ~lIO
       THEN /\ lIsVisible' = fallbackFlags.isVisible
            /\ lHasBeenVisible' = fallbackFlags.hasBeenVisible
            /\ UNCHANGED <<lObserver, lQueue>>
       ELSE /\ lObserver' = TRUE
            /\ lQueue' = <<elIntersecting>>
            /\ UNCHANGED <<lIsVisible, lHasBeenVisible>>
    /\ LazyRecord("hostConnected", IF connectFires THEN 1 ELSE 0)
    /\ UNCHANGED <<lIO, elIntersecting, lMicro>>

\* hostDisconnected(): the observer is disconnected, its queued entries are gone.
LazyHostDisconnected ==
    /\ lConnected
    /\ lConnected' = FALSE
    /\ lObserver' = FALSE
    /\ lQueue' = <<>>
    /\ LazyRecord("hostDisconnected", 0)
    /\ UNCHANGED <<lIO, lIsVisible, lHasBeenVisible, elIntersecting, lMicro>>

\* Whether handleIntersection(entries) invokes onVisible: entries[0] alone decides.
intersectionFires == Len(lQueue) > 0 /\ lQueue[1] /\ ~lIsVisible

\* The observer's callback: handleIntersection(entries) with the queued entries.
LazyHandleIntersection ==
    /\ lObserver
    /\ Len(lQueue) > 0
    /\ lQueue' = <<>>
    /\ lIsVisible' = lQueue[1]
    /\ lHasBeenVisible' = (lHasBeenVisible \/ intersectionFires)
    /\ lMicro' = (lMicro \/ intersectionFires)
    /\ LazyRecord("handleIntersection", IF intersectionFires THEN 1 ELSE 0)
    /\ UNCHANGED <<lIO, lConnected, lObserver, elIntersecting>>

\* Whether forceVisible() invokes onVisible.
forceVisibleFiresAlways == TRUE
forceVisibleFires == ~lHasBeenVisible

\* forceVisible()
LazyForceVisible ==
    /\ lIsVisible' = (lIsVisible \/ forceVisibleFires)
    /\ lHasBeenVisible' = (lHasBeenVisible \/ forceVisibleFires)
    /\ lMicro' = (lMicro \/ forceVisibleFires)
    /\ LazyRecord("forceVisible", IF forceVisibleFires THEN 1 ELSE 0)
    /\ UNCHANGED <<lIO, lConnected, lObserver, lQueue, elIntersecting>>

\* reset()
LazyReset ==
    /\ lIsVisible' = FALSE
    /\ lHasBeenVisible' = FALSE
    /\ lMicro' = TRUE
    /\ LazyRecord("reset", 0)
    /\ UNCHANGED <<lIO, lConnected, lObserver, lQueue, elIntersecting>>

\* The element enters or leaves the root's area; an observer queues an entry.
ElementMoves ==
    /\ lObserver => Len(lQueue) < MaxQueue
    /\ elIntersecting' = ~elIntersecting
    /\ lQueue' = IF lObserver THEN Append(lQueue, ~elIntersecting) ELSE lQueue
    /\ UNCHANGED <<lIO, lConnected, lObserver, lIsVisible, lHasBeenVisible, lMicro,
                   lLast, lRun, lFires, lEpoch>>

\* The queued microtask runs: host.requestUpdate().
LazyMicrotask ==
    /\ lMicro
    /\ lMicro' = FALSE
    /\ UNCHANGED <<lIO, lConnected, lObserver, lIsVisible, lHasBeenVisible, lQueue,
                   elIntersecting, lLast, lRun, lFires, lEpoch>>

InitLazy ==
    /\ lIO \in BOOLEAN
    /\ lConnected = FALSE
    /\ lObserver = FALSE
    /\ lIsVisible = FALSE
    /\ lHasBeenVisible = FALSE
    /\ lQueue = <<>>
    /\ elIntersecting \in BOOLEAN
    /\ lMicro = FALSE
    /\ lLast = [op |-> "none", fired |-> 0, hbv |-> FALSE]
    /\ lRun = [len |-> 0, fires |-> 0]
    /\ lFires = 0
    /\ lEpoch = "new"

\* A controller on a platform with IntersectionObserver, the element off screen.
IdleLazy ==
    /\ InitLazy
    /\ lIO
    /\ ~elIntersecting

NextLazy ==
    \/ LazyHostConnected /\ UNCHANGED <<themeVars, host, zoomVars, storeVars, flagVars, restVars>>
    \/ LazyHostDisconnected /\ UNCHANGED <<themeVars, host, zoomVars, storeVars, flagVars, restVars>>
    \/ LazyHandleIntersection /\ UNCHANGED <<themeVars, host, zoomVars, storeVars, flagVars, restVars>>
    \/ LazyForceVisible /\ UNCHANGED <<themeVars, host, zoomVars, storeVars, flagVars, restVars>>
    \/ LazyReset /\ UNCHANGED <<themeVars, host, zoomVars, storeVars, flagVars, restVars>>
    \/ ElementMoves /\ UNCHANGED <<themeVars, host, zoomVars, storeVars, flagVars, restVars>>
    \/ LazyMicrotask /\ UNCHANGED <<themeVars, host, zoomVars, storeVars, flagVars, restVars>>

(***************************************************************************)
(* Claims about the LazyInitController (checked under SpecLazy).           *)
(***************************************************************************)
\* C8: a run of consecutive forceVisible() calls invokes onVisible at most once,
\* and a forceVisible() call made when hasBeenVisible was already true invokes
\* nothing.
C8_ForceVisibleOnce ==
    /\ lRun.fires <= 1
    /\ (lLast.op = "forceVisible" /\ lLast.hbv) => lLast.fired = 0

\* Two forceVisible() calls in a row, the first of which invoked onVisible.
C8_Witness ==
    /\ lLast.op = "forceVisible" /\ lLast.hbv /\ lLast.fired = 0
    /\ lRun.len >= 2 /\ lRun.fires = 1

\* C9: without IntersectionObserver, from hostConnected() on (and until a reset)
\* the element counts as visible, hasBeenVisible is true, and onVisible has been
\* invoked exactly once, by hostConnected() itself; no forceVisible() adds to it.
C9_FallbackFiresOnce ==
    (~lIO /\ lEpoch = "connected") =>
        /\ lIsVisible /\ lHasBeenVisible
        /\ lFires = 1
        /\ lLast.op = "hostConnected" => lLast.fired = 1
        /\ lLast.op = "forceVisible" => lLast.fired = 0

\* On the fallback platform the host was connected and forceVisible() was then
\* called twice.
C9_Witness ==
    /\ ~lIO /\ lEpoch = "connected"
    /\ lLast.op = "forceVisible" /\ lRun.len >= 2
    /\ lFires = 1

\* The entries of a batch that record a transition of the element to
\* intersecting: every entry after the first follows a move of the element.
BecameVisibleIn(queue) == {i \in 2..Len(queue) : queue[i]}

\* hasBeenVisible, once true, stays true through every step but reset(), and
\* a batch of one entry that says intersecting, delivered to a controller
\* that holds the element for not visible, invokes onVisible once.
HasBeenVisibleLatched ==
    [][/\ (lHasBeenVisible /\ ~LazyReset) => lHasBeenVisible'
       /\ (LazyHandleIntersection /\ lQueue = <<TRUE>> /\ ~lIsVisible) =>
              lLast'.fired = 1 /\ lHasBeenVisible']_vars

\* C24: between resets every transition of the observed element to
\* intersecting invokes onVisible and sets hasBeenVisible, and no step but
\* reset() clears hasBeenVisible.
C24_EveryTransitionFires ==
    [][/\ (lHasBeenVisible /\ ~LazyReset) => lHasBeenVisible'
       /\ (LazyHandleIntersection /\ BecameVisibleIn(lQueue) # {}) =>
              lLast'.fired >= 1 /\ lHasBeenVisible']_vars

(***************************************************************************)
(* VizHighchartsComponent, as the VizStockEvolution element: its update    *)
(* cycle, its PropertyWatchController (no debounce) and its lazy           *)
(* initialisation.  Each operator maps the element's fields to the fields  *)
(* after the method has run.                                               *)
(***************************************************************************)
Props == {"prices", "events", "theme", "demo", "lazy"}

\* getWatchedProperties()
getWatchedProperties == {"prices", "events", "theme", "demo"}

\* hasData(): the base implementation, which no component overrides.
hasData(h) == TRUE

\* A reactive property is written: requestUpdate(name, old).
requestUpdate(h, names) ==
    [h EXCEPT !.changed = @ \cup names, !.updatePending = TRUE]

\* loadDemoData()
loadDemoData(h) ==
    IF h.prices THEN h
    ELSE requestUpdate([h EXCEPT !.prices = TRUE], {"prices", "events"})

\* updateChart(): counted on entry; it returns early without a container or
\* without prices, else it updates the chart or creates it.
updateChart(h, container) ==
    LET counted == [h EXCEPT !.calls = Sat(@ + 1),
                             !.forcedCalls = IF h.forced THEN Sat(@ + 1) ELSE @]
    IN  IF ~container \/ ~h.prices THEN counted ELSE [counted EXCEPT !.chart = TRUE]

\* onBecameVisible()
onBecameVisible(h, container) ==
    LET loaded == IF h.demo /\ ~hasData(h) THEN loadDemoData(h) ELSE h
    IN  [updateChart(loaded, container) EXCEPT !.chartInitialized = TRUE]

\* Whether onWatchedPropertiesChange(changes) goes on to the chart.
lazyGate(h, hasBeenVisible) == ~h.lazy \/ hasBeenVisible

\* onWatchedPropertiesChange(changes)
onWatchedPropertiesChange(h, changes, hasBeenVisible, container) ==
    IF lazyGate(h, hasBeenVisible) /\ (~h.chart \/ changes # {})
    THEN [updateChart(h, container) EXCEPT !.chartInitialized = TRUE]
    ELSE h

\* propertyWatcher.checkProperties(changed) with no debounce: the watched names
\* are collected and flushed at once.
checkProperties(h, changed, hasBeenVisible, container) ==
    LET pending == changed \cap getWatchedProperties
    IN  IF pending = {} THEN h
        ELSE onWatchedPropertiesChange(h, pending, hasBeenVisible, container)

\* updateHighchartsTheme(): the theme class of the container, an incremental
\* chart.update() of the colours and attribute patches; it returns without a
\* container.  None of the element's fields changes and updateChart() is not
\* called.
updateHighchartsTheme(h, container) == h

\* onThemeChange(state), called by the theme controller when the resolved theme
\* has changed; the controller then queues host.requestUpdate().
onThemeChange(h, container) == requestUpdate(updateHighchartsTheme(h, container), {})

\* destroyChart()
destroyChart(h) == [h EXCEPT !.chart = FALSE]

\* History: an event from outside the element after the observed forceVisible().
Outside(h) == [h EXCEPT !.dirty = h.forced]

\* connectedCallback(): updates are enabled, the controllers are connected (the
\* container reference is not set while they are), then demo data is loaded.
HostConnect ==
    /\ LazyHostConnected
    /\ LET h0 == Outside([host EXCEPT !.enabled = TRUE])
           h1 == IF connectFires THEN onBecameVisible(h0, FALSE) ELSE h0
       IN  host' = IF h1.demo THEN loadDemoData(h1) ELSE h1
    /\ UNCHANGED <<themeVars, zoomVars, storeVars, flagVars, restVars>>

\* disconnectedCallback().  History: whether the chart was there to destroy.
HostDisconnect ==
    /\ LazyHostDisconnected
    /\ host' = Outside([destroyChart(host) EXCEPT !.hadChart = host.chart])
    /\ UNCHANGED <<themeVars, zoomVars, storeVars, flagVars, restVars>>

\* The page writes a property: prices (empty or not), events, theme, demo, lazy.
SetProp(p, v) ==
    /\ p \in {"demo", "lazy"} => host[p] # v
    /\ host' = Outside(requestUpdate(
                   IF p \in {"prices", "demo", "lazy"} THEN [host EXCEPT ![p] = v] ELSE host,
                   {p}))
    /\ UNCHANGED <<themeVars, lazyVars, zoomVars, storeVars, flagVars, restVars>>

\* One update cycle: render, then updated(changedProperties).
UpdateCycle ==
    /\ host.enabled /\ host.updatePending
    /\ \E themeChanged \in BOOLEAN :
         /\ themeChanged => "theme" \in host.changed
         /\ LET changed == host.changed
                hr == [host EXCEPT !.changed = {}, !.updatePending = FALSE,
                                   !.rendered = TRUE]
                \* VizBaseComponent.updated: themeController.setMode(this.theme),
                \* which calls onThemeChange when the resolved theme differs
                h0 == IF themeChanged THEN onThemeChange(hr, lConnected) ELSE hr
                h1 == IF "demo" \in changed /\ h0.demo THEN loadDemoData(h0) ELSE h0
                force == "lazy" \in changed /\ ~h1.lazy /\ ~h1.chartInitialized
                fires == force /\ forceVisibleFires
                h2 == IF fires THEN onBecameVisible(h1, lConnected) ELSE h1
                h3 == checkProperties(h2, changed, lHasBeenVisible \/ fires, lConnected)
            IN  /\ host' = IF "prices" \in changed THEN requestUpdate(h3, {}) ELSE h3
                /\ IF force THEN LazyForceVisible ELSE UNCHANGED lazyVars
    /\ UNCHANGED <<themeVars, zoomVars, storeVars, flagVars, restVars>>

\* The intersection observer delivers its entries.
HostIntersection ==
    /\ LazyHandleIntersection
    /\ host' = IF intersectionFires
               THEN onBecameVisible(Outside(host), lConnected /\ host.rendered)
               ELSE Outside(host)
    /\ UNCHANGED <<themeVars, zoomVars, storeVars, flagVars, restVars>>

\* The page calls lazyInit.forceVisible().  History: the call is the observed one
\* when the element is lazy and updateChart() has not been invoked before.
HostForceVisible ==
    /\ LazyForceVisible
    /\ LET observed == host.lazy /\ ~lHasBeenVisible /\ host.calls = 0
           h0 == IF observed THEN [host EXCEPT !.forced = TRUE, !.dirty = FALSE]
                 ELSE Outside(host)
       IN  host' = IF forceVisibleFires
                   THEN onBecameVisible(h0, lConnected /\ host.rendered)
                   ELSE h0
    /\ UNCHANGED <<themeVars, zoomVars, storeVars, flagVars, restVars>>

\* The theme controller's debounce timer expires after a class toggle and the
\* resolved theme has changed: onThemeChange(state).
HostThemeChange ==
    /\ host.enabled
    /\ host' = Outside(onThemeChange(host, lConnected /\ host.rendered))
    /\ UNCHANGED <<themeVars, lazyVars, zoomVars, storeVars, flagVars, restVars>>

\* The microtask queued by the lazy controller: host.requestUpdate().
HostMicrotask ==
    /\ LazyMicrotask
    /\ host' = requestUpdate(host, {})
    /\ UNCHANGED <<themeVars, zoomVars, storeVars, flagVars, restVars>>

HostElementMoves ==
    /\ ElementMoves
    /\ UNCHANGED <<themeVars, host, zoomVars, storeVars, flagVars, restVars>>

\* After construction: every property holds its initial value and is in the
\* changed map, the first update waits for the element to be connected.
InitHost ==
    host = [enabled |-> FALSE, rendered |-> FALSE, lazy |-> TRUE, demo |-> FALSE,
            prices |-> FALSE, changed |-> Props, updatePending |-> TRUE,
            chart |-> FALSE, chartInitialized |-> FALSE,
            calls |-> 0, forced |-> FALSE, forcedCalls |-> 0, dirty |-> FALSE,
            hadChart |-> FALSE]

NextHost ==
    \/ HostConnect
    \/ HostDisconnect
    \/ \E v \in BOOLEAN : SetProp("prices", v)
    \/ \E p \in {"events", "theme"} : SetProp(p, TRUE)
    \/ \E p \in {"demo", "lazy"}, v \in BOOLEAN : SetProp(p, v)
    \/ UpdateCycle
    \/ HostThemeChange
    \/ HostIntersection
    \/ HostForceVisible
    \/ HostMicrotask
    \/ HostElementMoves

(***************************************************************************)
(* Claims about the chart host (checked under SpecHost).                   *)
(***************************************************************************)
\* The first half of C1: as long as the element has not been visible,
\* updateChart() has not been invoked.
NeverVisibleNeverUpdates == ~lHasBeenVisible => host.calls = 0

\* C1: for a lazy chart host that has never been visible updateChart() is never
\* invoked, and after forceVisible() is called on such a host exactly one
\* updateChart() invocation follows (as long as nothing else is done to the
\* element from outside).
C1_LazyThenForceVisible ==
    /\ NeverVisibleNeverUpdates
    /\ (host.forced /\ ~host.dirty) => host.forcedCalls = 1

\* An update cycle in which theme is the only watched property that changed
\* (and lazy did not change).
ThemeOnlyCycle ==
    /\ UpdateCycle
    /\ host.changed \cap getWatchedProperties = {"theme"}
    /\ "lazy" \notin host.changed

\* A theme change detected from a class toggle invokes no updateChart() and
\* leaves the chart as it is; nor does the update cycle it requests.
DetectedThemeChangeSkipsUpdateChart ==
    [][(HostThemeChange \/ (UpdateCycle /\ host.changed = {}))
          => (host'.calls = host.calls /\ host'.chart = host.chart)]_vars

\* C16: neither a theme change detected from a class toggle nor an update cycle
\* caused by writing the theme property invokes updateChart().
C16_ThemeChangeSkipsUpdateChart ==
    [][(HostThemeChange \/ ThemeOnlyCycle) => host'.calls = host.calls]_vars

\* An update cycle in which neither theme nor prices changed, so that
\* updated() reaches neither the theme controller nor the element's own
\* change summary: whatever update is pending when it ends was requested by
\* VizHighchartsComponent.updated() itself.
BaseHookCycle == UpdateCycle /\ host.changed \cap {"theme", "prices"} = {}

\* C26: no re-render is requested synchronously from inside an in-progress
\* update cycle: when updated() returns, no update of the host is scheduled.
C26_NoRequestInsideUpdate == [][BaseHookCycle => ~host'.updatePending]_vars

\* The host has been attached again, inside the viewport and holding prices,
\* after a detach that destroyed its chart: the new observer's first entry,
\* which says intersecting, waits to be delivered.
Reattached ==
    /\ lConnected /\ lObserver /\ lQueue = <<TRUE>> /\ elIntersecting
    /\ host.hadChart /\ host.prices /\ ~host.chart

\* C30: a chart host that has rendered its chart, is detached and is attached
\* again while it holds data and is inside the viewport gets its chart back
\* (as long as it stays attached), whether or not the page does anything more.
C30_ReattachedChartReturns == Reattached ~> (host.chart \/ ~lConnected)


(***************************************************************************)
(* Stock chart elements and the x axis of the chart engine.  The engine is *)
(* outside the repository: its update() may keep the axis range or put it  *)
(* back to the full range, and both outcomes are modelled.                 *)
(***************************************************************************)
\* Points of the time axis; the data spans all of them.
Times == {0, 100, 200, 300}
Undefined == -1
ZoomKinds == {"evolution", "stockchart"}

Min(S) == CHOOSE x \in S : \A y \in S : x <= y
Max(S) == CHOOSE x \in S : \A y \in S : y <= x

\* The engine's full range: nothing selected by the user.
DefaultExtremes ==
    [min |-> Min(Times), max |-> Max(Times), userMin |-> Undefined, userMax |-> Undefined]

\* xAxis.setExtremes(min, max, true, false)
setExtremes(min, max) == [min |-> min, max |-> max, userMin |-> min, userMax |-> max]

\* chart.update(options, true, true): the ranges the axis may report afterwards.
chartUpdate(ext) == {ext, DefaultExtremes}

\* VizStockChartBase.preserveExtremesAndUpdate(updateFn) with a chart present:
\* the ranges the axis may report afterwards.
preserveExtremesAndUpdate(ext) ==
    IF ext.userMin # Undefined
    THEN {setExtremes(ext.userMin, ext.userMax)}
    ELSE chartUpdate(ext)

\* The last lines of updateChart() with a chart present, by element.
updateChartExtremes(kind, ext) ==
    IF kind = "evolution" THEN preserveExtremesAndUpdate(ext) ELSE chartUpdate(ext)

\* The data property is written and the update cycle calls updateChart():
\* nothing without data, a rebuild with a chart present, a new chart otherwise.
ZoomDataChange(nonEmpty) ==
    /\ zLast' = [op |-> IF nonEmpty /\ zChart THEN "rebuild" ELSE "other", before |-> zExt]
    /\ IF ~nonEmpty THEN UNCHANGED <<zChart, zExt>>
       ELSE IF zChart
            THEN /\ zExt' \in updateChartExtremes(zKind, zExt)
                 /\ UNCHANGED zChart
            ELSE /\ zChart' = TRUE
                 /\ zExt' = DefaultExtremes
    /\ UNCHANGED <<zKind, themeVars, lazyVars, host, storeVars, flagVars, restVars>>

\* The theme changes: updateHighchartsTheme() / updateTheme() save the range,
\* update the chart and restore the range, in both elements.
ZoomThemeChange ==
    /\ zChart
    /\ zExt' \in preserveExtremesAndUpdate(zExt)
    /\ zLast' = [op |-> "theme", before |-> zExt]
    /\ UNCHANGED <<zKind, zChart, themeVars, lazyVars, host, storeVars, flagVars, restVars>>

\* The user selects the range [a, b] in the chart, or the whole range again.
UserZoom(a, b) ==
    /\ zChart
    /\ a < b
    /\ zExt' = IF a = Min(Times) /\ b = Max(Times) THEN DefaultExtremes ELSE setExtremes(a, b)
    /\ zLast' = [op |-> "zoom", before |-> zExt]
    /\ UNCHANGED <<zKind, zChart, themeVars, lazyVars, host, storeVars, flagVars, restVars>>

\* disconnectedCallback(): the chart is destroyed.
ZoomDisconnect ==
    /\ zChart
    /\ zChart' = FALSE
    /\ zExt' = DefaultExtremes
    /\ zLast' = [op |-> "other", before |-> zExt]
    /\ UNCHANGED <<zKind, themeVars, lazyVars, host, storeVars, flagVars, restVars>>

InitZoom ==
    /\ zKind \in ZoomKinds
    /\ zChart = FALSE
    /\ zExt = DefaultExtremes
    /\ zLast = [op |-> "none", before |-> DefaultExtremes]

\* An evolution element without a chart.
IdleZoom ==
    /\ InitZoom
    /\ zKind = "evolution"

NextZoom ==
    \/ \E d \in BOOLEAN : ZoomDataChange(d)
    \/ ZoomThemeChange
    \/ \E a, b \in Times : UserZoom(a, b)
    \/ ZoomDisconnect

(***************************************************************************)
(* Claims about zoom preservation (checked under SpecZoom).                *)
(***************************************************************************)
\* The range selected by the user before the last operation is the range the
\* axis reports now.
RangeKept ==
    zLast.before.userMin # Undefined =>
        /\ zExt.min = zLast.before.userMin
        /\ zExt.max = zLast.before.userMax

\* C2: in every stock chart element with a chart whose x axis has a range
\* selected by the user, a rebuild through updateChart() after a data change
\* leaves the axis reporting that range.
C2_RebuildKeepsExtremes == zLast.op = "rebuild" => RangeKept

\* The same for the elements built on VizStockChartBase, and for a theme change
\* in both elements.
C2_EvolutionKeepsExtremes ==
    /\ (zLast.op = "rebuild" /\ zKind = "evolution") => RangeKept
    /\ zLast.op = "theme" => RangeKept


(***************************************************************************)
(* VizStore: stores created with the default options (no persistence, no   *)
(* debug log), but for SpecPersist, whose stores are persistent.  A        *)
(* subscriber, when invoked, returns, throws, calls an unsubscribe         *)
(* closure, or calls set() on the store that is notifying it.              *)
(***************************************************************************)
Namespaces == {"A", "B"}
Keys == {"k1", "k2"}
Values == {"a", "b"}
Callbacks == {"c1", "c2"}
Wildcard == "*"
Other(ns) == CHOOSE n \in Namespaces : n # ns

\* VizStore.getInstance(namespace): the instance that the namespace names.
getInstanceShared(ns) == "A"
getInstance(ns) == ns

\* get(key)
get(st, key) == IF st[key] = "absent" THEN "undefined" ELSE st[key]

\* set(): previousValue === value
sameValueNever(previousValue, value) == FALSE
sameValue(previousValue, value) == previousValue = value

\* A Set of callbacks in insertion order; each entry also records, as history,
\* the namespace through which it was subscribed.
Entries(seq) == {seq[i] : i \in DOMAIN seq}
HasCallback(seq, cb) == \E i \in DOMAIN seq : seq[i].cb = cb
setAdd(seq, e) == IF HasCallback(seq, e.cb) THEN seq ELSE Append(seq, e)
setDelete(seq, cb) == SelectSeq(seq, LAMBDA e : e.cb # cb)

\* What a for...of loop over a Set has left to visit once cb is deleted from it.
iterationKeepsDeleted(todo, cb) == todo
iterationAfterDelete(todo, cb) == setDelete(todo, cb)

\* The number of subscriptions held.
SubCount ==
    Cardinality({t \in Namespaces \X Keys \X (1..(MaxSubs + 1)) :
                     t[3] <= Len(sSubs[t[1]][t[2]])})
    + Cardinality({t \in Namespaces \X (1..(MaxSubs + 1)) : t[2] <= Len(sWild[t[1]])})

\* The Set a subscription lives in.
SubscriberSet(subs, wild, inst, key) == IF key = Wildcard THEN wild[inst] ELSE subs[inst][key]

\* notifySubscribers(key, value, previousValue) is entered.  History: start is
\* the subscribers at that time, seen and dup those invoked once and again,
\* removed those unsubscribed since.
Frame(subs, wild, inst, ns, key, value, previousValue) ==
    [inst |-> inst, ns |-> ns, key |-> key, value |-> value, prev |-> previousValue,
     phase |-> "key", todo |-> subs[inst][key],
     start |-> {<<"key", e.cb>> : e \in Entries(subs[inst][key])}
               \cup {<<"wild", e.cb>> : e \in Entries(wild[inst])},
     seen |-> {}, dup |-> {}, removed |-> {}, thrown |-> {}]

\* History of an operation called from outside any callback.
LastOp(op, ns, key, value, stored) ==
    [op |-> op, ns |-> ns, key |-> key, value |-> value,
     before |-> IF key = Wildcard THEN "undefined" ELSE get(sState[getInstance(ns)], key),
     stored |-> stored,
     otherBefore |-> sState[getInstance(Other(ns))],
     notified |-> FALSE, otherNotified |-> FALSE, emitted |-> FALSE, threw |-> FALSE]

NoInvoke == [key |-> "none", value |-> "none", prev |-> "none", depth |-> 0, late |-> FALSE]

\* The unsubscribe closure of (inst, key, cb) runs: the callback leaves its Set,
\* and the loops that are iterating that Set lose it.
unsubSubsWholeKey(subs, inst, key, cb) ==
    IF key = Wildcard THEN subs ELSE [subs EXCEPT ![inst][key] = <<>>]
unsubSubs(subs, inst, key, cb) ==
    IF key = Wildcard THEN subs ELSE [subs EXCEPT ![inst][key] = setDelete(@, cb)]
unsubWild(wild, inst, key, cb) ==
    IF key = Wildcard THEN [wild EXCEPT ![inst] = setDelete(@, cb)] ELSE wild
unsubStack(stack, present, inst, key, cb) ==
    [i \in DOMAIN stack |->
        LET f == stack[i]
            kind == IF key = Wildcard THEN "wild" ELSE "key"
            hit == f.inst = inst /\ (key = Wildcard \/ f.key = key)
        IN  IF ~hit \/ ~present THEN f
            ELSE [f EXCEPT !.todo = IF f.phase = kind THEN iterationAfterDelete(@, cb) ELSE @,
                           !.removed = @ \cup {<<kind, cb>>}]]

\* History: the closure of (inst, key, cb) is called.  One called closure is
\* followed at a time, this one or the one followed so far.
Unsubscribed(inst, key, cb) ==
    IF sUnsubbed = {} THEN {{<<inst, key, cb>>}} ELSE {sUnsubbed, {<<inst, key, cb>>}}

\* An unsubscribe closure exists for a subscription made at some time.
ClosureExists(inst, key, cb) ==
    \/ HasCallback(SubscriberSet(sSubs, sWild, inst, key), cb)
    \/ <<inst, key, cb>> \in sUnsubbed

\* JSON.stringify(Object.fromEntries(state)): a key that holds undefined is
\* left out of the text.
stringify(st) ==
    [text |-> "json",
     entries |-> [k \in DOMAIN st |-> IF st[k] = "undefined" THEN "absent" ELSE st[k]]]

\* No item under the storage key, and an item that JSON.parse() rejects.
NoItem == [text |-> "none", entries |-> [k \in Keys |-> "absent"]]
CorruptItem == [text |-> "corrupt", entries |-> [k \in Keys |-> "absent"]]

\* loadFromStorage(): the state the constructor starts from.  A throwing
\* getItem() or JSON.parse() is caught, and a missing item is skipped.
loadFromStorage(stored, fails) ==
    [state |-> IF fails \/ stored.text # "json"
               THEN [k \in Keys |-> "absent"] ELSE stored.entries,
     threw |-> FALSE]

\* saveToStorage(): a throwing setItem() is caught.
saveToStorage(stored, st, fails) ==
    [stored |-> IF fails THEN stored ELSE stringify(st), threw |-> FALSE]

\* clearStorage(): removeItem() is called outside any try block.
clearStorage(stored, fails) ==
    [stored |-> IF fails THEN stored ELSE NoItem, threw |-> fails]

\* What set(key, value) hands to notifySubscribers(), if it gets there.
setNotification(st, subs, wild, inst, ns, key, value) ==
    IF sameValue(get(st[inst], key), value) THEN <<>>
    ELSE <<Frame(subs, wild, inst, ns, key, value, get(st[inst], key))>>

\* What delete(key) hands to notifySubscribers(), if it gets there.
deleteNotificationAlways(st, subs, wild, inst, ns, key) ==
    <<Frame(subs, wild, inst, ns, key, "undefined", get(st[inst], key))>>
deleteNotification(st, subs, wild, inst, ns, key) ==
    IF st[inst][key] = "absent" THEN <<>>
    ELSE <<Frame(subs, wild, inst, ns, key, "undefined", get(st[inst], key))>>

\* set(key, value) on the store variables, called from outside any callback
set(ns, key, value) ==
    /\ sStack = <<>>
    /\ LET inst == getInstance(ns)
           previousValue == get(sState[inst], key)
       IN  IF sameValue(previousValue, value)
           THEN /\ sLast' = LastOp("set", ns, key, value, FALSE)
                /\ UNCHANGED <<sState, sStack, sStorage>>
           ELSE /\ sState' = [sState EXCEPT ![inst][key] = value]
                /\ LET saved == saveToStorage(sStorage[inst], sState'[inst], sFails)
                   IN  /\ sStorage' = IF sPersist THEN [sStorage EXCEPT ![inst] = saved.stored]
                                       ELSE sStorage
                       /\ sLast' = [LastOp("set", ns, key, value, TRUE)
                                       EXCEPT !.threw = sPersist /\ saved.threw]
                /\ sStack' = IF sLast'.threw THEN <<>>
                              ELSE setNotification(sState, sSubs, sWild, inst, ns, key, value)
    /\ sDone' = <<>>
    /\ sInvoked' = NoInvoke
    /\ UNCHANGED <<sPersist, sFails, sSubs, sWild, sUnsubbed>>

\* set(key, value), called from outside any callback
StoreSet(ns, key, value) ==
    /\ set(ns, key, value)
    /\ UNCHANGED <<themeVars, lazyVars, host, zoomVars, flagVars, restVars>>

\* delete(key)
StoreDelete(ns, key) ==
    /\ sStack = <<>>
    /\ LET inst == getInstance(ns)
           previousValue == get(sState[inst], key)
       IN  IF sState[inst][key] = "absent"
           THEN /\ sLast' = LastOp("delete", ns, key, "undefined", FALSE)
                /\ sStack' = deleteNotification(sState, sSubs, sWild, inst, ns, key)
                /\ UNCHANGED <<sState, sStorage>>
           ELSE /\ sState' = [sState EXCEPT ![inst][key] = "absent"]
                /\ LET saved == saveToStorage(sStorage[inst], sState'[inst], sFails)
                   IN  /\ sStorage' = IF sPersist THEN [sStorage EXCEPT ![inst] = saved.stored]
                                       ELSE sStorage
                       /\ sLast' = [LastOp("delete", ns, key, "undefined", TRUE)
                                       EXCEPT !.threw = sPersist /\ saved.threw]
                /\ sStack' = IF sLast'.threw THEN <<>>
                              ELSE deleteNotification(sState, sSubs, sWild, inst, ns, key)
    /\ sDone' = <<>>
    /\ sInvoked' = NoInvoke
    /\ UNCHANGED <<sPersist, sFails>>
    /\ UNCHANGED <<sSubs, sWild, sUnsubbed, themeVars, lazyVars, host, zoomVars, flagVars, restVars>>

\* clear()
StoreClear(ns) ==
    /\ sStack = <<>>
    /\ sState' = [sState EXCEPT ![getInstance(ns)] = [k \in Keys |-> "absent"]]
    /\ LET inst == getInstance(ns)
           cleared == clearStorage(sStorage[inst], sFails)
       IN  /\ sStorage' = IF sPersist THEN [sStorage EXCEPT ![inst] = cleared.stored]
                           ELSE sStorage
           /\ sLast' = [LastOp("clear", ns, Wildcard, "undefined", TRUE)
                           EXCEPT !.threw = sPersist /\ cleared.threw]
    /\ sDone' = <<>>
    /\ sInvoked' = NoInvoke
    /\ UNCHANGED <<sPersist, sFails>>
    /\ UNCHANGED <<sSubs, sWild, sStack, sUnsubbed, themeVars, lazyVars, host, zoomVars, flagVars, restVars>>

\* subscribe(key, callback), and subscribeAll(callback) for key = Wildcard
StoreSubscribe(ns, key, cb) ==
    /\ sStack = <<>>
    /\ SubCount < MaxSubs
    /\ LET inst == getInstance(ns)
           e == [cb |-> cb, via |-> ns]
       IN  /\ sSubs' = IF key = Wildcard THEN sSubs
                       ELSE [sSubs EXCEPT ![inst][key] = setAdd(@, e)]
           /\ sWild' = IF key = Wildcard THEN [sWild EXCEPT ![inst] = setAdd(@, e)]
                       ELSE sWild
           /\ sUnsubbed' = sUnsubbed \ {<<inst, key, cb>>}
    /\ sLast' = LastOp("subscribe", ns, key, "undefined", FALSE)
    /\ sDone' = <<>>
    /\ sInvoked' = NoInvoke
    /\ UNCHANGED <<sState, sStack, persistVars, themeVars, lazyVars, host, zoomVars, flagVars, restVars>>

\* An unsubscribe closure is called from outside any callback.
StoreUnsubscribe(ns, key, cb) ==
    /\ sStack = <<>>
    /\ LET inst == getInstance(ns)
       IN  /\ ClosureExists(inst, key, cb)
           /\ sSubs' = unsubSubs(sSubs, inst, key, cb)
           /\ sWild' = unsubWild(sWild, inst, key, cb)
           /\ sUnsubbed' \in Unsubscribed(inst, key, cb)
    /\ sLast' = LastOp("unsubscribe", ns, key, "undefined", FALSE)
    /\ sDone' = <<>>
    /\ sInvoked' = NoInvoke
    /\ UNCHANGED <<sState, sStack, persistVars, themeVars, lazyVars, host, zoomVars, flagVars, restVars>>

\* The innermost notifySubscribers() call.
Top == sStack[Len(sStack)]

\* Its loop takes the next callback of the Set it iterates and calls it with
\* (key, value, previousValue).  History: the invocation.
Invoke ==
    /\ sStack # <<>>
    /\ Top.todo # <<>>
    /\ LET e == Head(Top.todo)
           subKey == IF Top.phase = "wild" THEN Wildcard ELSE Top.key
       IN  /\ sInvoked' = [key |-> Top.key, value |-> Top.value, prev |-> Top.prev,
                           depth |-> Len(sStack),
                           late |-> <<Top.inst, subKey, e.cb>> \in sUnsubbed]
           /\ sLast' = [sLast EXCEPT !.notified = TRUE,
                                     !.otherNotified = @ \/ e.via # sLast.ns]
    /\ UNCHANGED <<sDone, themeVars, lazyVars, host, zoomVars, flagVars, restVars>>

\* The stack once the callback has been taken from the loop.
StackAfterCall ==
    LET s == <<Top.phase, Head(Top.todo).cb>>
    IN  [sStack EXCEPT ![Len(sStack)] =
            [Top EXCEPT !.todo = Tail(Top.todo),
                        !.seen = Top.seen \cup {s},
                        !.dup = Top.dup \cup ({s} \cap Top.seen)]]

\* The callback returns, or throws into the loop's try/catch.
SubscriberReturns ==
    /\ Invoke
    /\ sStack' = StackAfterCall
    /\ UNCHANGED <<sState, sSubs, sWild, sUnsubbed, persistVars>>

\* The stack once the callback has thrown: the try/catch around the call logs
\* the error and the loop goes on.  History: who threw.
StackAfterThrowUncaught ==
    [StackAfterCall EXCEPT ![Len(sStack)] =
        [@ EXCEPT !.todo = <<>>, !.phase = "wild",
                  !.thrown = @ \cup {<<Top.phase, Head(Top.todo).cb>>}]]
StackAfterThrow ==
    [StackAfterCall EXCEPT ![Len(sStack)] =
        [@ EXCEPT !.thrown = @ \cup {<<Top.phase, Head(Top.todo).cb>>}]]

\* The callback throws.
SubscriberThrows ==
    /\ Invoke
    /\ sStack' = StackAfterThrow
    /\ UNCHANGED <<sState, sSubs, sWild, sUnsubbed, persistVars>>

\* The callback calls an unsubscribe closure.
SubscriberUnsubscribes(ns, key, cb) ==
    /\ Invoke
    /\ LET inst == getInstance(ns)
       IN  /\ ClosureExists(inst, key, cb)
           /\ sSubs' = unsubSubs(sSubs, inst, key, cb)
           /\ sWild' = unsubWild(sWild, inst, key, cb)
           /\ sStack' = unsubStack(StackAfterCall,
                                   HasCallback(SubscriberSet(sSubs, sWild, inst, key), cb),
                                   inst, key, cb)
           /\ sUnsubbed' \in Unsubscribed(inst, key, cb)
    /\ UNCHANGED <<sState, persistVars>>

\* The callback calls set(key, value) on the store that is notifying it.
SubscriberSets(key, value) ==
    /\ Invoke
    /\ Len(sStack) < MaxDepth
    /\ LET inst == getInstance(Top.ns)
           previousValue == get(sState[inst], key)
       IN  IF sameValue(previousValue, value)
           THEN /\ sStack' = StackAfterCall
                /\ UNCHANGED <<sState, sStorage>>
           ELSE /\ sState' = [sState EXCEPT ![inst][key] = value]
                /\ sStorage' = IF sPersist
                               THEN [sStorage EXCEPT ![inst] =
                                        saveToStorage(@, sState'[inst], sFails).stored]
                               ELSE sStorage
                /\ sStack' = StackAfterCall
                              \o setNotification(sState, sSubs, sWild, inst, Top.ns, key, value)
    /\ UNCHANGED <<sSubs, sWild, sUnsubbed, sPersist, sFails>>

\* The loop over the key's subscribers ends: the loop over wildcardSubscribers.
NotifyWildcards ==
    /\ sStack # <<>>
    /\ Top.todo = <<>>
    /\ Top.phase = "key"
    /\ sStack' = [sStack EXCEPT ![Len(sStack)] =
                     [Top EXCEPT !.phase = "wild", !.todo = sWild[Top.inst]]]
    /\ UNCHANGED <<sState, sSubs, sWild, sLast, sDone, sInvoked, sUnsubbed, persistVars,
                   themeVars, lazyVars, host, zoomVars, flagVars, restVars>>

\* notifySubscribers() returns, emitStateChangeEvent() dispatches the event,
\* and set() or delete() returns.
NotifyReturns ==
    /\ sStack # <<>>
    /\ Top.todo = <<>>
    /\ Top.phase = "wild"
    /\ sStack' = SubSeq(sStack, 1, Len(sStack) - 1)
    /\ sDone' = <<Top>>
    /\ sLast' = [sLast EXCEPT !.emitted = TRUE]
    /\ UNCHANGED <<sState, sSubs, sWild, sInvoked, sUnsubbed, persistVars,
                   themeVars, lazyVars, host, zoomVars, flagVars, restVars>>

NoOp ==
    [op |-> "none", ns |-> "A", key |-> Wildcard, value |-> "undefined",
     before |-> "undefined", stored |-> FALSE,
     otherBefore |-> [k \in Keys |-> "absent"],
     notified |-> FALSE, otherNotified |-> FALSE, emitted |-> FALSE, threw |-> FALSE]

InitStore ==
    /\ sPersist = FALSE
    /\ sStorage = [i \in Namespaces |-> NoItem]
    /\ sFails = FALSE
    /\ sState = [i \in Namespaces |-> [k \in Keys |-> "absent"]]
    /\ sSubs = [i \in Namespaces |-> [k \in Keys |-> <<>>]]
    /\ sWild = [i \in Namespaces |-> <<>>]
    /\ sStack = <<>>
    /\ sLast = NoOp
    /\ sDone = <<>>
    /\ sInvoked = NoInvoke
    /\ sUnsubbed = {}

\* What localStorage may hold under a store's storage key when the store is
\* constructed: nothing, a text that is not JSON, or an object saved earlier.
StoredItems ==
    {NoItem, CorruptItem}
    \cup {stringify([k \in Keys |-> IF k = "k1" THEN v ELSE "absent"]) :
              v \in Values \cup {"absent"}}

\* getInstance(namespace, {persist: true}) has constructed the stores.
InitPersistentStore ==
    /\ sPersist = TRUE
    /\ sStorage \in [Namespaces -> StoredItems]
    /\ sStorage[getInstance("B")] = NoItem
    /\ sFails \in BOOLEAN
    /\ sState = [i \in Namespaces |-> loadFromStorage(sStorage[i], sFails).state]
    /\ sSubs = [i \in Namespaces |-> [k \in Keys |-> <<>>]]
    /\ sWild = [i \in Namespaces |-> <<>>]
    /\ sStack = <<>>
    /\ sLast = [NoOp EXCEPT !.op = "getInstance",
                            !.threw = \E i \in Namespaces :
                                         loadFromStorage(sStorage[i], sFails).threw]
    /\ sDone = <<>>
    /\ sInvoked = NoInvoke
    /\ sUnsubbed = {}

\* Environment: access to localStorage starts or stops throwing.
StorageAvailability ==
    /\ sStack = <<>>
    /\ sFails' = ~sFails
    /\ UNCHANGED <<sState, sSubs, sWild, sStack, sLast, sDone, sInvoked, sUnsubbed,
                   sPersist, sStorage,
                   themeVars, lazyVars, host, zoomVars, flagVars, restVars>>

\* One persistent store and one key, which may also be set to undefined.
NextPersist ==
    \/ \E v \in Values \cup {"undefined"} : StoreSet("A", "k1", v)
    \/ StoreDelete("A", "k1")
    \/ StoreClear("A")
    \/ \E k \in {"k1", Wildcard}, cb \in Callbacks : StoreSubscribe("A", k, cb)
    \/ SubscriberReturns
    \/ SubscriberThrows
    \/ NotifyWildcards
    \/ NotifyReturns
    \/ StorageAvailability

\* The steps of the stores of the namespaces N, with the keys K.
StoreStep(N, K) ==
    \/ \E ns \in N, k \in K, v \in Values : StoreSet(ns, k, v)
    \/ \E ns \in N, k \in K : StoreDelete(ns, k)
    \/ \E ns \in N : StoreClear(ns)
    \/ \E ns \in N, k \in K \cup {Wildcard}, cb \in Callbacks : StoreSubscribe(ns, k, cb)
    \/ \E ns \in N, k \in K \cup {Wildcard}, cb \in Callbacks : StoreUnsubscribe(ns, k, cb)
    \/ SubscriberReturns
    \/ \E ns \in N, k \in K \cup {Wildcard}, cb \in Callbacks :
           SubscriberUnsubscribes(ns, k, cb)
    \/ \E k \in K, v \in Values : SubscriberSets(k, v)
    \/ NotifyWildcards
    \/ NotifyReturns

\* One store and all its keys.
NextStore == StoreStep({"A"}, Keys)

\* The stores of both namespaces and the one key they have in common.
NextNamespaces == StoreStep(Namespaces, {"k1"})

(***************************************************************************)
(* Claims about the store (checked under SpecStore).                       *)
(***************************************************************************)
\* Every subscriber is invoked at most once by a notification, and only the
\* subscribers of the key and the wildcard subscribers are.
AtMostOnce(f) == f.dup = {} /\ f.seen \subseteq f.start

\* A finished notification has invoked every subscriber there was when it
\* started, but for those unsubscribed while it ran.
ExactlyOnce(f) == AtMostOnce(f) /\ (f.start \ f.removed) \subseteq f.seen

C6_NoNotificationAfterUnsubscribe ==
    /\ ~sInvoked.late
    /\ \A t \in sUnsubbed :
           /\ ~HasCallback(SubscriberSet(sSubs, sWild, t[1], t[2]), t[3])
           /\ \A i \in DOMAIN sStack :
                  (/\ sStack[i].inst = t[1]
                   /\ sStack[i].phase = (IF t[2] = Wildcard THEN "wild" ELSE "key")
                   /\ (t[2] = Wildcard \/ sStack[i].key = t[2]))
                  => ~HasCallback(sStack[i].todo, t[3])

\* A subscriber was unsubscribed by another during a notification, before its
\* turn, and the notification finished without invoking it.
C6_Witness ==
    /\ sDone # <<>>
    /\ \E x \in sDone[1].removed \cap sDone[1].start : x \notin sDone[1].seen
    /\ sDone[1].seen # {}
    /\ sUnsubbed # {}

\* C7: a set, delete or clear on one namespace invokes no subscriber subscribed
\* through the other namespace and leaves the other namespace's values as they
\* were, an identically named key included.
C7_NamespacesIndependent ==
    sLast.op \in {"set", "delete", "clear"} =>
        /\ ~sLast.otherNotified
        /\ sState[getInstance(Other(sLast.ns))] = sLast.otherBefore

\* A set on "A" has notified a subscriber of "A" while "B" holds a value and a
\* subscriber for the same key.
C7_Witness ==
    /\ sLast.op = "set" /\ sLast.ns = "A" /\ sLast.stored /\ sLast.notified
    /\ sStack = <<>>
    /\ sState[getInstance("B")][sLast.key] \in Values
    /\ sSubs[getInstance("B")][sLast.key] # <<>>

(***************************************************************************)
(* Flag layout.  Dates are in days.  Prices are whole numbers and positions *)
(* are kept in units of 1/PositionScale, so that the offsets (2.4%, 4.2%,  *)
(* 6% of the range) and the separation (4%) are whole numbers too.         *)
(***************************************************************************)
STEM_SHORT == 20
STEM_MEDIUM == 35
STEM_LONG == 50
CLOSE_THRESHOLD_DAYS == 90
PositionScale == 2500

Dates == {0, 10, 100, 105}
BasePrices == {100, 110, 115, 125, 130, 135}
PriceRanges == {1000}

Abs(x) == IF x < 0 THEN -x ELSE x

\* stemToPrice(stemHeight, priceRange) = priceRange * (stemHeight / 50) * 0.06
stemToPrice(stemHeight, priceRange) ==
    (PositionScale * priceRange * stemHeight * 6) \div (STEM_LONG * 100)

\* minSeparation = priceRange * MIN_ICON_SEPARATION_PERCENT
minSeparationOf(priceRange) == (PositionScale * priceRange * 4) \div 100

\* basePrice + stemToPrice(height, priceRange)
finalYOf(basePrice, height, priceRange) ==
    PositionScale * basePrice + stemToPrice(height, priceRange)

\* occupiedPositions.some(pos => Math.abs(candidateY - pos) < minSeparation)
hasCollisionNever(candidateY, occupied, minSeparation) == FALSE
hasCollision(candidateY, occupied, minSeparation) ==
    \E i \in DOMAIN occupied : Abs(candidateY - occupied[i]) < minSeparation

heights == <<STEM_SHORT, STEM_MEDIUM, STEM_LONG>>

\* findNonCollidingStemHeight(basePrice, occupiedPositions, minSeparation, priceRange)
findNonCollidingStemHeight(basePrice, occupied, minSeparation, priceRange) ==
    LET free == {i \in DOMAIN heights :
                    ~hasCollision(finalYOf(basePrice, heights[i], priceRange),
                                  occupied, minSeparation)}
        step(acc, height) ==
            LET candidateY == finalYOf(basePrice, height, priceRange)
                minDistance == Min({Abs(candidateY - occupied[i]) : i \in DOMAIN occupied})
            IN  IF minDistance > acc.maxMinDistance
                THEN [bestHeight |-> height, maxMinDistance |-> minDistance]
                ELSE acc
        start == [bestHeight |-> STEM_LONG, maxMinDistance |-> 0]
    IN  IF free # {} THEN heights[Min(free)]
        ELSE step(step(step(start, heights[1]), heights[2]), heights[3]).bestHeight

\* eventsWithPrice.sort((a, b) => a.date - b.date): a stable sort
RECURSIVE InsertByDate(_)
InsertByDate(events) ==
    IF events = <<>> THEN <<>>
    ELSE LET sorted == InsertByDate(SubSeq(events, 1, Len(events) - 1))
             e == events[Len(events)]
             k == Cardinality({i \in DOMAIN sorted : sorted[i].date <= e.date})
         IN  SubSeq(sorted, 1, k) \o <<e>> \o SubSeq(sorted, k + 1, Len(sorted))

SortByDateSkipped(events) == events
SortByDate(events) == InsertByDate(events)

\* The inner loop: the events before the current one, from the nearest back,
\* until one is more than the threshold earlier.
RECURSIVE nearbyPrevious(_, _, _)
nearbyPrevious(placed, current, j) ==
    IF j = 0 THEN <<>>
    ELSE IF current.date - placed[j].date > CLOSE_THRESHOLD_DAYS THEN <<>>
    ELSE <<placed[j]>> \o nearbyPrevious(placed, current, j - 1)

\* The outer loop from event i on; placed are the events before i with their
\* stemHeight and finalY.
RECURSIVE placeFrom(_, _, _, _)
placeFrom(sorted, i, placed, priceRange) ==
    IF i > Len(sorted) THEN placed
    ELSE LET current == sorted[i]
             near == nearbyPrevious(placed, current, i - 1)
             occupiedPositions == [k \in DOMAIN near |-> near[k].finalY]
             stemHeight ==
                 IF near = <<>> THEN STEM_MEDIUM
                 ELSE findNonCollidingStemHeight(current.basePrice, occupiedPositions,
                                                 minSeparationOf(priceRange), priceRange)
         IN  placeFrom(sorted, i + 1,
                       Append(placed,
                              [current EXCEPT !.stemHeight = stemHeight,
                                              !.finalY = finalYOf(current.basePrice, stemHeight,
                                                                  priceRange)]),
                       priceRange)

\* calculateFlagStemHeights(events, priceRange): the events in date order, each
\* with the stemHeight the returned Map gives its index.
calculateFlagStemHeights(events, priceRange) ==
    LET eventsWithPrice ==
            [i \in DOMAIN events |->
                [date |-> events[i].date, index |-> events[i].index,
                 basePrice |-> events[i].basePrice, finalY |-> 0, stemHeight |-> STEM_MEDIUM]]
    IN  IF events = <<>> THEN <<>>
        ELSE placeFrom(SortByDate(eventsWithPrice), 1, <<>>, priceRange)

\* The arguments: up to MaxEvents events, each with its place in the list as index.
FlagInputs ==
    UNION {[1..n -> [date : Dates, basePrice : BasePrices]] : n \in 0..MaxEvents}

Calculate ==
    /\ ~fCalled
    /\ fCalled' = TRUE
    /\ fLayout' = calculateFlagStemHeights(fEvents, fRange)
    /\ UNCHANGED <<fEvents, fRange, themeVars, lazyVars, host, zoomVars, storeVars, restVars>>

InitFlag ==
    /\ \E in \in FlagInputs :
           fEvents = [i \in DOMAIN in |->
                         [date |-> in[i].date, index |-> i, basePrice |-> in[i].basePrice]]
    /\ fRange \in PriceRanges
    /\ fCalled = FALSE
    /\ fLayout = <<>>

\* No events.
IdleFlag ==
    /\ fEvents = <<>>
    /\ fRange \in PriceRanges
    /\ fCalled = FALSE
    /\ fLayout = <<>>

NextFlag == Calculate

\* One event more than MaxEvents, at few dates and base values: a dense
\* cluster of events.
DenseDates == {0, 10}
DenseBasePrices == {100, 110}
InitDenseFlag ==
    /\ \E in \in [1..(MaxEvents + 1) -> [date : DenseDates, basePrice : DenseBasePrices]] :
           fEvents = [i \in DOMAIN in |->
                         [date |-> in[i].date, index |-> i, basePrice |-> in[i].basePrice]]
    /\ fRange \in PriceRanges
    /\ fCalled = FALSE
    /\ fLayout = <<>>

(***************************************************************************)
(* Claims about the flag layout (checked under SpecFlag).                  *)
(***************************************************************************)
\* The layout of two events 10 days apart whose positions, both at the medium
\* tier, would be nearer than the minimum separation.
TwoCloseEvents ==
    /\ fCalled
    /\ Len(fLayout) = 2
    /\ fLayout[2].date - fLayout[1].date = 10
    /\ Abs(finalYOf(fLayout[2].basePrice, STEM_MEDIUM, fRange)
           - finalYOf(fLayout[1].basePrice, STEM_MEDIUM, fRange)) < minSeparationOf(fRange)

\* The distance between the two resolved positions.
Gap == Abs(fLayout[2].finalY - fLayout[1].finalY)

\* The distance between two neighbouring tiers: 1.8% of the range.
TierStep(priceRange) == stemToPrice(STEM_MEDIUM, priceRange) - stemToPrice(STEM_SHORT, priceRange)

HasNearbyPredecessor(events, i) ==
    \E k \in DOMAIN events :
        /\ k # i
        /\ \/ events[k].date < events[i].date
           \/ events[k].date = events[i].date /\ k < i
        /\ events[i].date - events[k].date <= CLOSE_THRESHOLD_DAYS

\* The tiers the result gives to index i.
StemsOf(i) == {fLayout[k].stemHeight : k \in {n \in DOMAIN fLayout : fLayout[n].index = i}}

\* C11: whatever the order of the list, every event gets one tier, and an event
\* with no other event before it within the 90-day window gets medium; so does
\* a single event.
C11_IsolatedIsMedium ==
    fCalled =>
        /\ Len(fLayout) = Len(fEvents)
        /\ \A i \in DOMAIN fEvents :
               /\ Cardinality(StemsOf(i)) = 1
               /\ ~HasNearbyPredecessor(fEvents, i) => StemsOf(i) = {STEM_MEDIUM}
        /\ Len(fEvents) = 1 => fLayout[1].stemHeight = STEM_MEDIUM

\* Three events given latest first: the earliest and the latest are isolated
\* (the latest is more than 90 days after the middle one), the middle one is
\* near the earliest and is moved off the medium tier.
C11_Witness ==
    /\ fCalled
    /\ Len(fEvents) = 3
    /\ fEvents[1].date > fEvents[2].date
    /\ fEvents[2].date > fEvents[3].date
    /\ ~HasNearbyPredecessor(fEvents, 1)
    /\ HasNearbyPredecessor(fEvents, 2)
    /\ StemsOf(1) = {STEM_MEDIUM}
    /\ StemsOf(2) # {STEM_MEDIUM}

\* The events of the layout before event i and within the threshold of it.
NearbyBefore(i) ==
    {k \in 1..(i - 1) : fLayout[i].date - fLayout[k].date <= CLOSE_THRESHOLD_DAYS}

\* The distance from event i, were it at tier t, to the nearest of its nearby
\* predecessors' resolved positions.
MinDistanceAt(i, t) ==
    Min({Abs(finalYOf(fLayout[i].basePrice, heights[t], fRange) - fLayout[k].finalY) :
            k \in NearbyBefore(i)})

\* The tiers of event i that are not closer than the minimum separation to any
\* nearby predecessor, and the tiers that are farthest from the nearest one.
FreeTiers(i) == {t \in DOMAIN heights : MinDistanceAt(i, t) >= minSeparationOf(fRange)}
FarthestTiers(i) ==
    {t \in DOMAIN heights : \A u \in DOMAIN heights : MinDistanceAt(i, u) <= MinDistanceAt(i, t)}

\* The Map returned has one entry for each event, under the event's index.
KeyedByIndex ==
    /\ Len(fLayout) = Len(fEvents)
    /\ {fLayout[k].index : k \in DOMAIN fLayout} = DOMAIN fEvents
    /\ \A k \in DOMAIN fLayout :
           /\ fLayout[k].date = fEvents[fLayout[k].index].date
           /\ fLayout[k].basePrice = fEvents[fLayout[k].index].basePrice

\* C25: each event with nearby predecessors gets the first of the tiers short,
\* medium, long that is not closer than the minimum separation to any nearby
\* predecessor's position; when all three collide, the tier farthest from the
\* nearest predecessor, the first such tier in that order; the result is keyed
\* by the events' indexes.
C25_FirstFreeTierElseFarthest ==
    fCalled =>
        /\ KeyedByIndex
        /\ \A i \in DOMAIN fLayout :
               NearbyBefore(i) # {} =>
                   fLayout[i].stemHeight =
                       IF FreeTiers(i) # {} THEN heights[Min(FreeTiers(i))]
                       ELSE heights[Min(FarthestTiers(i))]

\* What the layout does in every case: as above, but when every tier lies on
\* a predecessor's position (all three distances are zero) the tier is long.
FarthestTierUnlessAllZero ==
    fCalled =>
        /\ KeyedByIndex
        /\ \A i \in DOMAIN fLayout :
               NearbyBefore(i) # {} =>
                   fLayout[i].stemHeight =
                       IF FreeTiers(i) # {} THEN heights[Min(FreeTiers(i))]
                       ELSE IF \A t \in DOMAIN heights : MinDistanceAt(i, t) = 0
                            THEN STEM_LONG
                            ELSE heights[Min(FarthestTiers(i))]

(***************************************************************************)
(* VizStockEvolution.findPriceAtDate.  Indexes are from 0 as in the source; *)
(* element i of the array is prices[i + 1] here.                            *)
(***************************************************************************)
SampleTimes == {2, 4, 6, 8}
SamplePrices == {10, 20, 30}
Timestamps == 0..10

\* The while loop: the least index whose time is not before the timestamp, or
\* the last index.
RECURSIVE bisect(_, _, _, _)
bisect(prices, timestamp, left, right) ==
    IF left < right
    THEN LET mid == (left + right) \div 2
         IN  IF prices[mid + 1].time < timestamp
             THEN bisect(prices, timestamp, mid + 1, right)
             ELSE bisect(prices, timestamp, left, mid)
    ELSE left

\* Math.abs(timestamp - leftPrice.time) < Math.abs(timestamp - prevPrice.time)
leftIsCloserOrEqual(timestamp, leftPrice, prevPrice) ==
    Abs(timestamp - leftPrice.time) <= Abs(timestamp - prevPrice.time)
leftIsCloser(timestamp, leftPrice, prevPrice) ==
    Abs(timestamp - leftPrice.time) < Abs(timestamp - prevPrice.time)

findPriceAtDate(prices, timestamp) ==
    IF Len(prices) = 0 THEN 0
    ELSE LET left == bisect(prices, timestamp, 0, Len(prices) - 1)
         IN  IF left + 1 \notin DOMAIN prices THEN prices[1].price
             ELSE IF left \notin DOMAIN prices THEN prices[left + 1].price
             ELSE IF leftIsCloser(timestamp, prices[left + 1], prices[left])
                  THEN prices[left + 1].price
                  ELSE prices[left].price

\* The series the element may hold: up to MaxSamples samples in ascending order
\* of time, equal times included.
PriceSeries ==
    {ps \in UNION {[1..n -> [time : SampleTimes, price : SamplePrices]] : n \in 0..MaxSamples} :
        \A i \in 1..(Len(ps) - 1) : ps[i].time <= ps[i + 1].time}

FindPrice ==
    /\ ~pCalled
    /\ pCalled' = TRUE
    /\ pResult' = findPriceAtDate(pPrices, pTimestamp)
    /\ UNCHANGED <<pPrices, pTimestamp, exceptPrice>>

InitPrice ==
    /\ pPrices \in PriceSeries
    /\ pTimestamp \in Timestamps
    /\ pCalled = FALSE
    /\ pResult = 0

\* No prices.
IdlePrice ==
    /\ pPrices = <<>>
    /\ pTimestamp = 0
    /\ pCalled = FALSE
    /\ pResult = 0

NextPrice == FindPrice

(***************************************************************************)
(* Claims about findPriceAtDate (checked under SpecPrice).                 *)
(***************************************************************************)
\* The distance in time from the timestamp to sample i.
Distance(i) == Abs(pTimestamp - pPrices[i].time)

\* C12: for a non-empty ascending series the result is the value of a sample
\* nearest in time to the timestamp; for a timestamp that a sample has, of the
\* first sample that has it; before the first sample, of the first sample; after
\* the last sample, of a sample with the last time, and of the last sample when
\* no other sample shares its time; and halfway between two adjacent samples, of
\* the earlier one.
C12_NearestSample ==
    (pCalled /\ pPrices # <<>>) =>
        LET n == Len(pPrices)
        IN  /\ \E i \in 1..n : /\ pResult = pPrices[i].price
                               /\ \A j \in 1..n : Distance(i) <= Distance(j)
            /\ \A i \in 1..n :
                   (pPrices[i].time = pTimestamp /\ (i = 1 \/ pPrices[i - 1].time < pTimestamp))
                       => pResult = pPrices[i].price
            /\ pTimestamp < pPrices[1].time => pResult = pPrices[1].price
            /\ pTimestamp > pPrices[n].time =>
                   /\ \E i \in 1..n : pPrices[i].time = pPrices[n].time /\ pResult = pPrices[i].price
                   /\ (n = 1 \/ pPrices[n - 1].time < pPrices[n].time) => pResult = pPrices[n].price
            /\ \A i \in 1..(n - 1) :
                   (/\ pPrices[i].time < pTimestamp
                    /\ pTimestamp < pPrices[i + 1].time
                    /\ Distance(i) = Distance(i + 1)) => pResult = pPrices[i].price

\* Three samples at different times with different values, asked for the time
\* halfway between the second and the third: the second one's value is returned.
C12_Witness ==
    /\ pCalled
    /\ Len(pPrices) = 3
    /\ pPrices[1].time < pPrices[2].time
    /\ pPrices[2].time < pTimestamp
    /\ pTimestamp < pPrices[3].time
    /\ Distance(2) = Distance(3)
    /\ pPrices[2].price # pPrices[3].price
    /\ pPrices[1].price # pPrices[2].price
    /\ pResult = pPrices[2].price

(***************************************************************************)
(* PropertyWatchController, with a host whose update cycle calls           *)
(* checkProperties(changedProperties) from updated().  The host's cycle    *)
(* runs whenever a property was written since the last one, attached or    *)
(* not, once the host has been attached for the first time.                *)
(***************************************************************************)
WatchProps == {"data", "config", "other"}
properties == {"data", "config"}
Debounces == {0, 100}
NoCallback == [calls |-> 0, epoch |-> "new", changes |-> {}]

\* flush(): the fields after it, and the callback invocation if there is one.
flushKeepingPending(pending, epoch, last) ==
    IF pending # {}
    THEN [pending |-> pending,
          last |-> [calls |-> Sat(last.calls + 1), epoch |-> epoch, changes |-> pending]]
    ELSE [pending |-> pending, last |-> last]
flush(pending, epoch, last) ==
    IF pending # {}
    THEN [pending |-> {},
          last |-> [calls |-> Sat(last.calls + 1), epoch |-> epoch, changes |-> pending]]
    ELSE [pending |-> pending, last |-> last]

\* History of a checkProperties call that passes the watched properties
\* 'watched' and goes on past the early return iff 'proceeds': the watched
\* changes passed while attached and not yet handed to the callback, those
\* owed at the last callback while attached, and what armed the timer.
Checked(h, watched, proceeds) ==
    LET owedNow == IF wEpoch = "attached" THEN h.owed \cup watched ELSE {}
        called == proceeds /\ wDebounce = 0
    IN  [owed |-> IF called THEN {} ELSE owedNow,
         owedAtCall |-> IF called THEN owedNow ELSE h.owedAtCall,
         armedBy |-> IF proceeds /\ wDebounce > 0
                     THEN (IF watched # {} THEN "watched" ELSE "unwatched")
                     ELSE h.armedBy,
         check |-> [watched |-> watched, pendingBefore |-> wPending # {},
                    called |-> called, timerBefore |-> wTimer]]

\* A property of the host is written: requestUpdate(name, oldValue).
WatchSetProp(p) ==
    /\ wChanged' = wChanged \cup {p}
    /\ wOp' = "set"
    /\ UNCHANGED <<wDebounce, wEpoch, wPending, wTimer, wInitialized, wLast, wHist, exceptWatch>>

\* hostConnected()
WatchHostConnected ==
    /\ wEpoch # "attached"
    /\ wEpoch' = "attached"
    /\ wPending' = {}
    /\ wInitialized' = FALSE
    /\ wOp' = "hostConnected"
    /\ wHist' = [wHist EXCEPT !.owed = {}]
    /\ UNCHANGED <<wDebounce, wChanged, wTimer, wLast, exceptWatch>>

\* hostDisconnected()
WatchHostDisconnected ==
    /\ wEpoch = "attached"
    /\ wEpoch' = "detached"
    /\ wTimer' = FALSE
    /\ wPending' = {}
    /\ wOp' = "hostDisconnected"
    /\ wHist' = [wHist EXCEPT !.owed = {}, !.armedBy = "none"]
    /\ UNCHANGED <<wDebounce, wChanged, wInitialized, wLast, exceptWatch>>

\* The host's update cycle: updated(changedProperties) -> checkProperties.
WatchCheckProperties ==
    /\ wEpoch # "new"
    /\ wChanged # {}
    /\ wChanged' = {}
    /\ wInitialized' = TRUE
    /\ wOp' = "checkProperties"
    /\ LET collected == {c \in wPending : c.prop \notin wChanged}
                            \cup {[prop |-> q, epoch |-> wEpoch] : q \in wChanged \cap properties}
       IN  /\ IF collected = {}
              THEN UNCHANGED <<wPending, wTimer, wLast>>
              ELSE IF wDebounce > 0
                THEN /\ wPending' = collected
                     /\ wTimer' = TRUE
                     /\ UNCHANGED wLast
                ELSE /\ wPending' = flush(collected, wEpoch, wLast).pending
                     /\ wLast' = flush(collected, wEpoch, wLast).last
                     /\ UNCHANGED wTimer
           /\ wHist' = Checked(wHist, wChanged \cap properties, collected # {})
    /\ UNCHANGED <<wDebounce, wEpoch, exceptWatch>>

\* The debounce timer expires: () => this.flush().
WatchTimerExpires ==
    /\ wTimer
    /\ wTimer' = FALSE
    /\ wPending' = flush(wPending, wEpoch, wLast).pending
    /\ wLast' = flush(wPending, wEpoch, wLast).last
    /\ wOp' = "timer"
    /\ wHist' = [wHist EXCEPT !.owed = IF wPending # {} THEN {} ELSE @,
                              !.owedAtCall = IF wPending # {} THEN wHist.owed ELSE @,
                              !.armedBy = "none"]
    /\ UNCHANGED <<wDebounce, wEpoch, wChanged, wInitialized, exceptWatch>>

InitWatch ==
    /\ wDebounce \in Debounces
    /\ wEpoch = "new"
    /\ wChanged = {}
    /\ wPending = {}
    /\ wTimer = FALSE
    /\ wInitialized = FALSE
    /\ wOp = "new"
    /\ wLast = NoCallback
    /\ wHist = [owed |-> {}, owedAtCall |-> {}, armedBy |-> "none",
                check |-> [watched |-> {}, pendingBefore |-> FALSE, called |-> FALSE,
                           timerBefore |-> FALSE]]

\* A controller that is never attached.
IdleWatch == InitWatch /\ wDebounce = 0

NextWatch ==
    \/ \E p \in WatchProps : WatchSetProp(p)
    \/ WatchHostConnected
    \/ WatchHostDisconnected
    \/ WatchCheckProperties
    \/ WatchTimerExpires

(***************************************************************************)
(* Claims about the PropertyWatchController (checked under SpecWatch).     *)
(***************************************************************************)
\* hostDisconnected() leaves no timer and no pending change behind, and no
\* callback is made for a change after the host was detached, until
\* checkProperties is called again.
DetachDropsPending ==
    /\ wOp = "hostDisconnected" => ~wTimer /\ wPending = {}
    /\ \A c \in wPending : c.epoch = wEpoch

\* C13: while the host is detached no timer is pending and no change is held,
\* and the callback is not invoked while the host is detached nor for a change
\* that checkProperties collected while it was detached.
C13_DetachedChangesDropped ==
    /\ wEpoch = "detached" => ~wTimer /\ wPending = {}
    /\ wLast.epoch # "detached"
    /\ \A c \in wLast.changes : c.epoch # "detached"


\* The properties in the map that the last callback invocation was given.
Delivered == {c.prop : c \in wLast.changes}

\* C23: while the host is attached every watched change passed to
\* checkProperties reaches the callback exactly once: with debounce 0 in a
\* callback made during that call, with a debounce in the one callback made
\* when the timer expires, whose map holds every watched property changed
\* since the flush before; a call with no watched property and nothing
\* pending invokes nothing.
C23_WatchedChangesDeliveredOnce ==
    /\ (wLast.calls > 0 /\ wLast.epoch = "attached") => Delivered = wHist.owedAtCall
    /\ (wEpoch = "attached" /\ wHist.owed # {}) =>
           /\ wDebounce > 0 /\ wTimer
           /\ {c.prop : c \in wPending} = wHist.owed
    /\ (wEpoch = "attached" /\ wOp = "checkProperties") =>
           /\ (wDebounce = 0 /\ wHist.check.watched # {}) =>
                  wHist.check.called /\ Delivered = wHist.check.watched
           /\ wDebounce > 0 => ~wHist.check.called
           /\ (wHist.check.watched = {} /\ ~wHist.check.pendingBefore) =>
                  ~wHist.check.called /\ wTimer = wHist.check.timerBefore
    /\ (wEpoch = "attached" /\ wOp = "timer" /\ wHist.owedAtCall # {} /\ wLast.calls > 0) =>
           wPending = {} /\ ~wTimer

\* The timer has expired on an attached host and its one callback was given
\* both watched properties, collected by two checkProperties calls.
C23_Witness ==
    /\ wEpoch = "attached" /\ wOp = "timer" /\ wDebounce > 0
    /\ wLast.calls = 1 /\ Delivered = properties
    /\ wHist.check.watched # properties /\ wHist.check.watched # {}
    /\ wPending = {} /\ wHist.owed = {}

\* C29: with a debounce and watched changes pending, a checkProperties call
\* that contains no watched property does not restart the timer.
C29_UnwatchedCycleKeepsTimer ==
    (wEpoch = "attached" /\ wTimer) => wHist.armedBy # "unwatched"

\* What the timer does guarantee: while the host is attached, pending changes
\* always have a timer, restarted by the last checkProperties call that came
\* with a change pending or passed.
PendingChangesHaveTimer ==
    (wEpoch = "attached" /\ wPending # {}) => wTimer /\ wHist.armedBy # "none"

(***************************************************************************)
(* VizStockChart: its update cycle, its chart and its real-time timer.     *)
(* The element's update cycle runs whenever a property was written since   *)
(* the last one, attached or not, once it has been attached for the first  *)
(* time; the container reference is empty while the element is detached.   *)
(***************************************************************************)
HISTORY_LIMIT == 500
StockProps == {"data", "config", "theme"}
DataLengths == {0, 498, 500, 750}

\* this.data = [...this.data.slice(-500), newPoint]
lengthAfterTick(len) == Min({len, HISTORY_LIMIT}) + 1

\* updateChart(): the chart exists afterwards.
stockUpdateChart(chart, container, len) ==
    IF ~container \/ len = 0 THEN chart ELSE TRUE

\* connectedCallback(); the first one lets the element's first update run.
TickConnect ==
    /\ rEpoch # "attached"
    /\ rEpoch' = "attached"
    /\ rChanged' = IF rEpoch = "new" THEN StockProps ELSE rChanged
    /\ UNCHANGED <<rRealtime, rTimer, rChart, rLen, rTicked, rDetachedTick, exceptTick>>

\* disconnectedCallback(): stopRealtime(), chart.destroy()
TickDisconnect ==
    /\ rEpoch = "attached"
    /\ rEpoch' = "detached"
    /\ rTimer' = FALSE
    /\ rChart' = FALSE
    /\ UNCHANGED <<rChanged, rRealtime, rLen, rTicked, rDetachedTick, exceptTick>>

\* The data property is written.
TickSetData(len) ==
    /\ rLen' = len
    /\ rChanged' = rChanged \cup {"data"}
    /\ rTicked' = FALSE
    /\ UNCHANGED <<rEpoch, rRealtime, rTimer, rChart, rDetachedTick, exceptTick>>

\* The config property is written.
TickSetConfig(realtime) ==
    /\ rRealtime' = realtime
    /\ rChanged' = rChanged \cup {"config"}
    /\ UNCHANGED <<rEpoch, rTimer, rChart, rLen, rTicked, rDetachedTick, exceptTick>>

\* The theme property is written.
TickSetTheme ==
    /\ rChanged' = rChanged \cup {"theme"}
    /\ UNCHANGED <<rEpoch, rRealtime, rTimer, rChart, rLen, rTicked, rDetachedTick,
                   exceptTick>>

\* The update cycle: updated(changedProperties).
TickUpdated ==
    /\ rEpoch # "new"
    /\ rChanged # {}
    /\ rChanged' = {}
    /\ LET needsChartUpdate ==
               \/ ~rChart
               \/ "config" \in rChanged
               \/ "theme" \in rChanged
               \/ "data" \in rChanged /\ ~rTimer
       IN  rChart' = IF needsChartUpdate
                     THEN stockUpdateChart(rChart, rEpoch = "attached", rLen)
                     ELSE rChart
    /\ rTimer' = IF rRealtime /\ ~rTimer THEN TRUE
                 ELSE IF ~rRealtime /\ rTimer THEN FALSE
                 ELSE rTimer
    /\ UNCHANGED <<rEpoch, rRealtime, rLen, rTicked, rDetachedTick, exceptTick>>

\* The interval timer fires: addRealtimePoint().
Tick ==
    /\ rTimer
    /\ IF ~rChart \/ rLen = 0
       THEN UNCHANGED <<rLen, rChanged, rTicked, rDetachedTick>>
       ELSE /\ rLen' = lengthAfterTick(rLen)
            /\ rChanged' = rChanged \cup {"data"}
            /\ rTicked' = TRUE
            /\ rDetachedTick' = (rDetachedTick \/ rEpoch # "attached")
    /\ UNCHANGED <<rEpoch, rRealtime, rTimer, rChart, exceptTick>>

InitTick ==
    /\ rEpoch = "new"
    /\ rChanged = {}
    /\ rRealtime \in BOOLEAN
    /\ rTimer = FALSE
    /\ rChart = FALSE
    /\ rLen \in DataLengths
    /\ rTicked = FALSE
    /\ rDetachedTick = FALSE

\* An element without data and without real-time updates.
IdleTick == InitTick /\ ~rRealtime /\ rLen = 0

NextTick ==
    \/ TickConnect
    \/ TickDisconnect
    \/ \E len \in DataLengths : TickSetData(len)
    \/ \E realtime \in BOOLEAN : TickSetConfig(realtime)
    \/ TickSetTheme
    \/ TickUpdated
    \/ Tick

(***************************************************************************)
(* Claims about the real-time tick (checked under SpecTick).               *)
(***************************************************************************)
\* disconnectedCallback() itself leaves no timer and no chart, and without a
\* chart a tick appends nothing: no point is appended while detached.
NoPointWhileDetached ==
    /\ ~rDetachedTick
    /\ rEpoch = "detached" => ~rChart

\* C15: while the element is detached no real-time timer is active and no tick
\* appends a point or calls the engine, whatever property writes and update
\* cycles were pending at the disconnect.
C15_DisconnectStopsRealtime ==
    /\ rEpoch = "detached" => ~rTimer
    /\ NoPointWhileDetached

\* Once a tick has appended a point to the data given, the history holds at most one point more
\* than the limit.
HistoryAtMostLimitPlusOne == rTicked => rLen <= HISTORY_LIMIT + 1

\* C17: once a tick has appended a point, the history holds at most 500 points.
C17_HistoryBounded == rTicked => rLen <= HISTORY_LIMIT

(***************************************************************************)
(* The unsubscribe closures of one store.  Every subscribe(key, callback)  *)
(* call returns a closure of its own; a closure remembers its key and its  *)
(* callback, and nothing else.                                             *)
(***************************************************************************)
ClosureKeys == {"k1", Wildcard}
NoClosureCall ==
    [closure |-> 0, nth |-> 0, changed |-> FALSE, resubscribed |-> FALSE, subscribed |-> FALSE]

\* subscribe(key, callback) / subscribeAll(callback) on the store "A": the
\* callback joins the Set and a new closure is returned.  History: the closures
\* of the same key and callback that were called before see a new subscription.
ClosureSubscribe(key, cb) ==
    /\ sStack = <<>>
    /\ Len(cClosures) < MaxClosures
    /\ LET inst == getInstance("A")
           e == [cb |-> cb, via |-> "A"]
       IN  /\ sSubs' = IF key = Wildcard THEN sSubs
                       ELSE [sSubs EXCEPT ![inst][key] = setAdd(@, e)]
           /\ sWild' = IF key = Wildcard THEN [sWild EXCEPT ![inst] = setAdd(@, e)]
                       ELSE sWild
    /\ cClosures' = Append([i \in DOMAIN cClosures |->
                               IF cClosures[i].key = key /\ cClosures[i].cb = cb
                               THEN [cClosures[i] EXCEPT !.resubscribed = TRUE]
                               ELSE cClosures[i]],
                           [key |-> key, cb |-> cb, calls |-> 0, resubscribed |-> FALSE])
    /\ UNCHANGED <<cLast, sState, sStack, sLast, sDone, sInvoked, sUnsubbed, persistVars,
                   exceptClosure>>

\* Closure i is called.  History: whether it had been called before, whether
\* the subscriptions changed, whether its key and callback were subscribed
\* again since it was returned or last called, and whether its callback is
\* still subscribed under its key when the call returns.
ClosureCall(i) ==
    /\ sStack = <<>>
    /\ i \in DOMAIN cClosures
    /\ LET inst == getInstance("A")
           c == cClosures[i]
       IN  /\ sSubs' = unsubSubs(sSubs, inst, c.key, c.cb)
           /\ sWild' = unsubWild(sWild, inst, c.key, c.cb)
           /\ cLast' = [closure |-> i, nth |-> Sat(c.calls + 1),
                        changed |-> (sSubs' # sSubs \/ sWild' # sWild),
                        resubscribed |-> c.resubscribed,
                        subscribed |-> HasCallback(SubscriberSet(sSubs', sWild', inst, c.key),
                                                   c.cb)]
           /\ cClosures' = [cClosures EXCEPT ![i].calls = Sat(@ + 1),
                                             ![i].resubscribed = FALSE]
    /\ UNCHANGED <<sState, sStack, sLast, sDone, sInvoked, sUnsubbed, persistVars,
                   exceptClosure>>

InitClosure ==
    /\ cClosures = <<>>
    /\ cLast = NoClosureCall

NextClosure ==
    \/ \E k \in ClosureKeys, cb \in Callbacks : ClosureSubscribe(k, cb)
    \/ \E i \in 1..MaxClosures : ClosureCall(i)

(***************************************************************************)
(* Claims about the unsubscribe closures (checked under SpecClosure).      *)
(***************************************************************************)
\* C18, as the spec states it: a second or later call of a closure leaves the
\* subscriptions as they are, whatever was called in between.
C18_AsStated == cLast.nth >= 2 => ~cLast.changed

\* C18: a second or later call of a closure leaves the subscriptions as they
\* are, unless its callback was subscribed again under its key since the
\* closure was last called; a call that changes them removes that callback.
C18_ClosureIdempotent ==
    /\ (cLast.nth >= 2 /\ ~cLast.resubscribed) => ~cLast.changed
    /\ cLast.closure # 0 => ~cLast.subscribed

\* A closure was called for the second time after the other callback had been
\* subscribed under the same key: that subscription is still there.
C18_Witness ==
    /\ cLast.nth >= 2 /\ ~cLast.changed /\ ~cLast.resubscribed
    /\ \E i \in DOMAIN cClosures :
           /\ i # cLast.closure
           /\ cClosures[i].key = cClosures[cLast.closure].key
           /\ cClosures[i].cb # cClosures[cLast.closure].cb
           /\ cClosures[i].calls = 0
           /\ HasCallback(SubscriberSet(sSubs, sWild, getInstance("A"), cClosures[i].key),
                          cClosures[i].cb)

(***************************************************************************)
(* Claims about delete() and about persistence (checked under SpecPersist, *)
(* where the store "A" is persistent and its key k1 may hold undefined).   *)
(***************************************************************************)
\* has(key)
has(st, key) == st[key] # "absent"

\* What delete(k1) and set(k1, undefined) would hand to notifySubscribers()
\* from the current state.
DeleteNow == deleteNotification(sState, sSubs, sWild, getInstance("A"), "A", "k1")
SetUndefinedNow == setNotification(sState, sSubs, sWild, getInstance("A"), "A", "k1", "undefined")

\* A delete(key) has been called and no set() after it.
Deleted == sLast.op = "delete"

\* C19, as the spec states it: from every state delete(key) notifies as
\* set(key, undefined) would, and has(key) is false after delete(key).
C19_AsStated ==
    /\ DeleteNow = SetUndefinedNow
    /\ Deleted => ~has(sState[getInstance(sLast.ns)], sLast.key)

\* C19: from a state where the key is absent or holds a value other than
\* undefined, delete(key) notifies as set(key, undefined) would: the same
\* subscribers with (key, undefined, previousValue) and the same global event.
\* Where the key holds undefined, set(key, undefined) notifies nobody and
\* delete(key) notifies every subscriber with (key, undefined, undefined).
\* After delete(key), has(key) is false.
C19_DeleteNotifiesLikeSetUndefined ==
    /\ sState[getInstance("A")]["k1"] # "undefined" => DeleteNow = SetUndefinedNow
    /\ sState[getInstance("A")]["k1"] = "undefined" =>
           /\ SetUndefinedNow = <<>>
           /\ DeleteNow = <<Frame(sSubs, sWild, getInstance("A"), "A", "k1",
                                  "undefined", "undefined")>>
    /\ Deleted =>
           /\ ~has(sState[getInstance(sLast.ns)], sLast.key)
           /\ sLast.stored = (sStack # <<>> \/ sDone # <<>>)
           /\ sInvoked.depth = 1 =>
                  /\ sInvoked.key = sLast.key
                  /\ sInvoked.value = "undefined"
                  /\ sInvoked.prev = sLast.before
           /\ (sLast.stored /\ sStack = <<>>) =>
                  /\ sLast.emitted
                  /\ sDone[1].key = sLast.key /\ sDone[1].value = "undefined"
                  /\ sDone[1].prev = sLast.before
                  /\ ExactlyOnce(sDone[1])

\* A delete() of a key that held a value has returned after invoking a
\* subscriber of the key and a wildcard subscriber.
C19_Witness ==
    /\ Deleted /\ sLast.stored /\ sLast.before \in Values
    /\ sStack = <<>> /\ sDone # <<>>
    /\ \E c, d \in Callbacks : {<<"key", c>>, <<"wild", d>>} \subseteq sDone[1].seen
    /\ sInvoked.value = "undefined" /\ sInvoked.prev = sLast.before

\* The store's memory reflects the last operation: the state loaded by the
\* constructor, the value set, the key deleted, everything cleared.
MemoryReflectsOperation ==
    LET st == sState[getInstance(sLast.ns)]
    IN  /\ sLast.op = "getInstance" =>
               st \in {loadFromStorage(sStorage[getInstance(sLast.ns)], fails).state :
                          fails \in BOOLEAN}
        /\ sLast.op = "set" => get(st, sLast.key) = sLast.value
        /\ sLast.op = "delete" => ~has(st, sLast.key)
        /\ sLast.op = "clear" => \A k \in Keys : ~has(st, k)

\* The subscribers are notified of the last set() or delete() that changed
\* the state, whether or not the storage failed.
NotifiedAsIfStored ==
    (sLast.op \in {"set", "delete"} /\ sLast.stored) =>
        /\ sStack # <<>> \/ sDone # <<>>
        /\ sStack = <<>> => sLast.emitted /\ ExactlyOnce(sDone[1])

\* C20: with persistence enabled, no failure of the storage leaves getInstance,
\* set, delete or clear as an exception; the memory reflects the operation and
\* the subscribers are notified as if the storage had succeeded.
C20_StorageFailuresContained ==
    /\ ~sLast.threw
    /\ MemoryReflectsOperation
    /\ NotifiedAsIfStored

\* What the store does guarantee: getInstance, set and delete never throw,
\* clear() throws exactly when the storage fails, and in every case the memory
\* reflects the operation and the subscribers are notified.
OnlyClearThrows ==
    /\ sLast.threw => sLast.op = "clear"
    /\ MemoryReflectsOperation
    /\ NotifiedAsIfStored

\* C21: when a subscriber throws during the notification of a set() or a
\* delete(), every subscriber of the key and every wildcard subscriber is
\* still invoked exactly once, the event is dispatched, the new value stays
\* stored and the call does not throw.
C21_ThrowingSubscriberIsolated ==
    (sDone # <<>> /\ sDone[1].thrown # {}) =>
        /\ sLast.op \in {"set", "delete"} /\ sLast.stored
        /\ sDone[1].seen = sDone[1].start /\ sDone[1].dup = {}
        /\ sLast.emitted
        /\ ~sLast.threw
        /\ sLast.op = "set" => get(sState[getInstance(sLast.ns)], sLast.key) = sLast.value
        /\ sLast.op = "delete" => ~has(sState[getInstance(sLast.ns)], sLast.key)

\* A set() has returned whose first subscriber, one of the key, threw, and
\* whose wildcard subscriber was invoked after it.
C21_Witness ==
    /\ sLast.op = "set" /\ sDone # <<>>
    /\ \E c, d \in Callbacks :
           /\ <<"key", c>> \in sDone[1].thrown
           /\ <<"wild", d>> \in sDone[1].seen \ sDone[1].thrown
    /\ sLast.emitted

(***************************************************************************)
(* Nested writes: a subscriber calls set() from inside its callback        *)
(* (checked under SpecStore).                                              *)
(***************************************************************************)
\* The outermost notifySubscribers() is about to call a subscriber that was
\* called by a notification nested in it, one for a later write to the same
\* key made from a callback, which has returned.
HeardNestedWrite ==
    /\ Len(sStack) = 1 /\ Top.todo # <<>>
    /\ sDone # <<>>
    /\ sDone[1].inst = Top.inst /\ sDone[1].key = Top.key
    /\ <<Top.phase, Head(Top.todo).cb>> \in sDone[1].seen

\* C28: when a subscriber calls set() from inside its callback, every
\* subscriber receives the notifications for a key in the order of the writes:
\* a subscriber that has received the notification of the nested write is not
\* given an older value afterwards, so that the last value it receives is the
\* stored one.
C28_NestedSetKeepsOrder ==
    [][(Invoke /\ HeardNestedWrite)
          => (Top.value = sDone[1].value /\ Top.value = get(sState[Top.inst], Top.key))]_vars

(***************************************************************************)
(* VizStore.setMany(updates): the loop over Object.entries(updates), each  *)
(* entry handed to set().  The entries are taken in the order in which     *)
(* Object.entries() enumerates them; an object has each key once.          *)
(***************************************************************************)
Updates ==
    {u \in UNION {[1..n -> Keys \X Values] : n \in 1..Cardinality(Keys)} :
        \A i, j \in DOMAIN u : i # j => u[i][1] # u[j][1]}

\* The entry that the loop hands to set() after i entries.
nextEntryReversed(updates, i) == updates[Len(updates) - i]
nextEntry(updates, i) == updates[i + 1]

\* No setMany() call is in progress.
ManyIdle == mUpdates = <<>>

\* setMany(updates) is called from outside any callback.
SetManyCall(updates) ==
    /\ ManyIdle
    /\ sStack = <<>>
    /\ mUpdates' = updates
    /\ mIndex' = 0
    /\ mBefore' = sState[getInstance("A")]
    /\ UNCHANGED <<storeVars, exceptMany>>

\* The loop of setMany() calls set(key, value) for its next entry; this
\* happens when the set() of the entry before has returned.
ManySet ==
    /\ mIndex < Len(mUpdates)
    /\ LET e == nextEntry(mUpdates, mIndex)
       IN  set("A", e[1], e[2])
    /\ mIndex' = mIndex + 1
    /\ UNCHANGED <<mUpdates, mBefore, exceptMany>>

\* The loop has passed every entry, the last set() has returned: setMany()
\* returns.
ManyReturns ==
    /\ ~ManyIdle
    /\ mIndex = Len(mUpdates)
    /\ sStack = <<>>
    /\ mUpdates' = <<>>
    /\ mIndex' = 0
    /\ UNCHANGED <<mBefore, storeVars, exceptMany>>

InitMany ==
    /\ mUpdates = <<>>
    /\ mIndex = 0
    /\ mBefore = [k \in Keys |-> "absent"]

NextMany ==
    \/ \E u \in Updates : SetManyCall(u)
    \/ ManySet
    \/ ManyReturns
    \/ \E k \in Keys, v \in Values : ManyIdle /\ StoreSet("A", k, v)
    \/ \E k \in Keys \cup {Wildcard}, cb \in Callbacks : ManyIdle /\ StoreSubscribe("A", k, cb)
    \/ SubscriberReturns
    \/ NotifyWildcards
    \/ NotifyReturns

(***************************************************************************)
(* Claims about setMany (checked under SpecMany).                          *)
(***************************************************************************)
\* The state after set(key, value) for the first n entries, one after another.
RECURSIVE AfterSets(_, _, _)
AfterSets(st, updates, n) ==
    IF n = 0 THEN st
    ELSE [AfterSets(st, updates, n - 1) EXCEPT ![updates[n][1]] = updates[n][2]]

IdleRest == IdlePrice /\ IdleWatch /\ IdleTick /\ InitClosure /\ InitMany

\* A theme controller alone.
ThemeInit == InitTheme /\ IdleLazy /\ InitHost /\ IdleZoom /\ InitStore /\ IdleFlag /\ IdleRest
SpecTheme == ThemeInit /\ [][NextTheme]_vars

\* A lazy controller alone, on either kind of platform.
LazyInit == IdleTheme /\ InitLazy /\ InitHost /\ IdleZoom /\ InitStore /\ IdleFlag /\ IdleRest
SpecLazy == LazyInit /\ [][NextLazy]_vars

\* A chart element with its controllers, on either kind of platform.
HostInit == IdleTheme /\ InitLazy /\ InitHost /\ IdleZoom /\ InitStore /\ IdleFlag /\ IdleRest
SpecHost == HostInit /\ [][NextHost]_vars

\* Either stock chart element and the engine's x axis.
ZoomInit == IdleTheme /\ IdleLazy /\ InitHost /\ InitZoom /\ InitStore /\ IdleFlag /\ IdleRest
SpecZoom == ZoomInit /\ [][NextZoom]_vars

\* The stores and their subscribers.
StoreInit == IdleTheme /\ IdleLazy /\ InitHost /\ IdleZoom /\ InitStore /\ IdleFlag /\ IdleRest
SpecStore == StoreInit /\ [][NextStore]_vars
SpecNamespaces == StoreInit /\ [][NextNamespaces]_vars

\* The flag layout applied to lists of events.
FlagInit == IdleTheme /\ IdleLazy /\ InitHost /\ IdleZoom /\ InitStore /\ InitFlag /\ IdleRest
SpecFlag == FlagInit /\ [][NextFlag]_vars

\* findPriceAtDate applied to ascending price series.
PriceInit == IdleTheme /\ IdleLazy /\ InitHost /\ IdleZoom /\ InitStore /\ IdleFlag /\ InitPrice /\ IdleWatch /\ IdleTick /\ InitClosure /\ InitMany
SpecPrice == PriceInit /\ [][NextPrice]_vars

\* A property watcher, without and with a debounce.
WatchInit == IdleTheme /\ IdleLazy /\ InitHost /\ IdleZoom /\ InitStore /\ IdleFlag /\ IdlePrice /\ InitWatch /\ IdleTick /\ InitClosure /\ InitMany
SpecWatch == WatchInit /\ [][NextWatch]_vars

\* A stock chart element with real-time updates.
TickInit == IdleTheme /\ IdleLazy /\ InitHost /\ IdleZoom /\ InitStore /\ IdleFlag /\ IdlePrice /\ IdleWatch /\ InitTick /\ InitClosure /\ InitMany
SpecTick == TickInit /\ [][NextTick]_vars

\* One store and the closures it has returned.
ClosureInit == IdleTheme /\ IdleLazy /\ InitHost /\ IdleZoom /\ InitStore /\ IdleFlag /\ IdleRest
SpecClosure == ClosureInit /\ [][NextClosure]_vars

\* One persistent store over a storage that may fail.
PersistInit ==
    IdleTheme /\ IdleLazy /\ InitHost /\ IdleZoom /\ InitPersistentStore /\ IdleFlag /\ IdleRest
SpecPersist == PersistInit /\ [][NextPersist]_vars

\* One store and the setMany() calls made on it.
ManyInit == IdleTheme /\ IdleLazy /\ InitHost /\ IdleZoom /\ InitStore /\ IdleFlag /\ IdleRest
SpecMany == ManyInit /\ [][NextMany]_vars

\* The flag layout of dense clusters of events.
DenseFlagInit ==
    IdleTheme /\ IdleLazy /\ InitHost /\ IdleZoom /\ InitStore /\ InitDenseFlag /\ IdleRest
SpecDenseFlag == DenseFlagInit /\ [][NextFlag]_vars

\* The chart host on a platform with IntersectionObserver, with what the
\* platform schedules by itself: a pending update is performed, queued
\* observer entries are delivered, a queued microtask runs.  What the page
\* does (property writes, attaching, detaching, scrolling) is not forced.
ReattachInit == IdleTheme /\ IdleLazy /\ InitHost /\ IdleZoom /\ InitStore /\ IdleFlag /\ IdleRest
SpecReattach ==
    /\ ReattachInit /\ [][NextHost]_vars
    /\ WF_vars(UpdateCycle) /\ WF_vars(HostIntersection) /\ WF_vars(HostMicrotask)

====
